---- MODULE Spec2Model ----
(***************************************************************************)
(* Model of the cache synchronisation pipeline of foodorder-bridge:        *)
(*   app/services/odoo_cache_service.py      (OdooCacheService, the file   *)
(*                                            cache and the Odoo fetch)    *)
(*   app/services/firestore_cache_service.py (FirestoreCacheService, the   *)
(*                                            remote store with its TTL)   *)
(*   app/services/cache_factory.py           (HybridCacheService, the      *)
(*                                            orchestrator)                *)
(*                                                                         *)
(* Conventions.  Python False/None in an id position is 0; a many2one      *)
(* [id, name] pair is its id.  Prices are integers.  Dictionaries built    *)
(* from a table with {x['id']: x for x in table} are kept as the table and *)
(* read with ById (the last row wins, as in the comprehension).  Time is   *)
(* counted in hours.  Presentation fields that are functions of names only *)
(* (tags, icon, description, preparation_time, has_toppings) are left out. *)
(***************************************************************************)
EXTENDS Integers, Sequences, FiniteSets, TLC

VARIABLES
    is_cloud_run,        \* HybridCacheService.is_cloud_run (K_SERVICE set)
    firestore_service,   \* TRUE iff HybridCacheService.firestore_service is not None
    local,               \* cache/*.json of OdooCacheService
    images,              \* public/images/{categories,products}/*.jpg
    remote,              \* the four Firestore documents
    remoteUp,            \* FALSE while Firestore calls raise
    now,                 \* wall clock, hours
    result,              \* outcome of the last reload_cache() call
    saving,              \* a reload inside its _save_json calls: what is left to write
    writing,             \* the cache file open for writing and not yet closed, "" if none
    read,                \* outcome of the last get made while a reload was saving
    _pool,               \* OdooConnectionPool._pool, the idle queue (connection ids)
    _active_connections, \* OdooConnectionPool._active_connections (connection ids)
    connections,         \* the OdooConnection objects created so far, by connection id
    _total_created,      \* OdooConnectionPool._total_created
    _total_reused,       \* OdooConnectionPool._total_reused
    clock,               \* time.time()
    held,                \* per caller: the connection it holds, and inside which call
    last_op,             \* outcome of the last call on the pool
    _lock,               \* OdooConnectionPool._lock: the thread inside "with self._lock", 0 if none
    frame,               \* per thread: where it is inside get_connection or release_connection
    returned,            \* how many get_connection calls returned a new, a reused connection
    _connection_pools,   \* the module dictionary _connection_pools: pool_key -> pool
    _pool_lock,          \* the module lock _pool_lock: the thread holding it, 0 if none
    pools,               \* the OdooConnectionPool objects constructed so far
    factory,             \* per thread: where it is inside get_connection_pool
    resolver,            \* one run of _process_attributes and the enrichment: input, output
    status,              \* what the last test_connection() call returned
    request_counts,      \* RateLimitingMiddleware.request_counts, by client IP
    admitted,            \* per client IP, the arrival times of the requests passed on
    response             \* what the last dispatch() of the rate limiter answered

cacheVars == <<is_cloud_run, firestore_service, local, images, remote, remoteUp, now, result>>

fileVars == <<saving, writing, read>>

poolVars == <<_pool, _active_connections, connections, _total_created, _total_reused,
              clock, held, last_op>>

threadVars == <<_lock, frame, returned>>

registryVars == <<_connection_pools, _pool_lock, pools, factory>>

limiterVars == <<request_counts, admitted, response>>

restVars == <<threadVars, registryVars, resolver, status, limiterVars>>

vars == <<cacheVars, fileVars, poolVars, restVars>>

-----------------------------------------------------------------------------
(* Bounds and program constants *)

MaxTime == 36

CacheTtlHours == 24

-----------------------------------------------------------------------------
(* Sequence helpers *)

Range(s) == {s[i] : i \in DOMAIN s}

\* [F(x) for x in s], as a tuple
Map(F(_), s) == << >> \o [i \in DOMAIN s |-> F(s[i])]

\* The function f, with every value computed
Tabulated(f) == f @@ << >>

RECURSIVE SeqSum(_)
SeqSum(s) == IF s = <<>> THEN 0 ELSE Head(s) + SeqSum(Tail(s))

RECURSIVE SeqMax(_)
SeqMax(s) == IF Len(s) = 1 THEN s[1]
             ELSE LET m == SeqMax(Tail(s)) IN IF Head(s) >= m THEN Head(s) ELSE m

\* max(iterable, default=0)
MaxDefault0(s) == IF s = <<>> THEN 0 ELSE SeqMax(s)

\* x in {row['id']: row for row in tab}
HasId(tab, id) == \E i \in DOMAIN tab : tab[i].id = id

\* {row['id']: row for row in tab}[id]
ById(tab, id) ==
    LET last == CHOOSE i \in DOMAIN tab :
                    tab[i].id = id /\ \A j \in DOMAIN tab : tab[j].id = id => j <= i
    IN tab[last]

\* str(n)
Str(n) == ToString(n)

-----------------------------------------------------------------------------
(* The upstream ERP.  One dataset is the content of the Odoo tables the     *)
(* reload reads.  The catalogue is the scenario of the specification:       *)
(* 3 POS categories, 5 POS products of which products 1 and 2 share         *)
(* template 1, one attribute with 2 values whose deltas are 0 and 500.      *)
(* Varied: whether there are categories, how the second template attribute  *)
(* value refers to a packaging, and the display type of the attribute.      *)

UpCategories(withCats) ==
    IF withCats
    THEN << [id |-> 1, name |-> "combo",   image |-> TRUE],
            [id |-> 2, name |-> "salad",   image |-> FALSE],
            [id |-> 3, name |-> "topping", image |-> FALSE] >>
    ELSE << >>

UpProducts(withCats) ==
    LET c(k) == IF withCats THEN k ELSE 0 IN
    << [id |-> 1, name |-> "p1", pos_categ_id |-> c(1), product_tmpl_id |-> 1,
        image |-> FALSE, available_in_pos |-> TRUE],
       [id |-> 2, name |-> "p2", pos_categ_id |-> c(1), product_tmpl_id |-> 1,
        image |-> FALSE, available_in_pos |-> TRUE],
       [id |-> 3, name |-> "p3", pos_categ_id |-> c(2), product_tmpl_id |-> 2,
        image |-> FALSE, available_in_pos |-> TRUE],
       [id |-> 4, name |-> "p4", pos_categ_id |-> c(2), product_tmpl_id |-> 3,
        image |-> FALSE, available_in_pos |-> TRUE],
       [id |-> 5, name |-> "p5", pos_categ_id |-> 0,    product_tmpl_id |-> 4,
        image |-> FALSE, available_in_pos |-> TRUE],
       [id |-> 9, name |-> "drink", pos_categ_id |-> 0, product_tmpl_id |-> 9,
        image |-> FALSE, available_in_pos |-> FALSE] >>

UpTemplates ==
    << [id |-> 1, list_price |-> 20000], [id |-> 2, list_price |-> 15000],
       [id |-> 3, list_price |-> 12000], [id |-> 4, list_price |-> 8000],
       [id |-> 9, list_price |-> 9000] >>

UpAttributes(dt) ==
    << [id |-> 1, name |-> "Size", create_variant |-> "no_variant", display_type |-> dt] >>

UpAttributeValues ==
    << [id |-> 1, name |-> "S", attribute_id |-> 1],
       [id |-> 2, name |-> "L", attribute_id |-> 1] >>

UpTemplateLines ==
    << [id |-> 1, product_tmpl_id |-> 1, attribute_id |-> 1, value_ids |-> <<1, 2>>] >>

\* pk = "none": no packaging reference; "unlinked": a packaging without
\* product; "linked": a packaging whose product is the drink (product 9).
UpTemplateAttributeValues(pk) ==
    << [id |-> 11, name |-> "S", price_extra |-> 0, product_tmpl_id |-> 1,
        attribute_id |-> 1, product_attribute_value_id |-> 1,
        product_packaging_id |-> 0],
       [id |-> 12, name |-> "L", price_extra |-> 500, product_tmpl_id |-> 1,
        attribute_id |-> 1, product_attribute_value_id |-> 2,
        product_packaging_id |-> IF pk = "none" THEN 0 ELSE 5] >>

UpPackagings(pk) ==
    << [id |-> 5, product_id |-> IF pk = "linked" THEN 9 ELSE 0] >>

Upstream(withCats, pk, dt) ==
    [ name                      |-> <<withCats, pk, dt>>,
      categories                |-> UpCategories(withCats),
      products                  |-> UpProducts(withCats),
      templates                 |-> UpTemplates,
      attributes                |-> UpAttributes(dt),
      attribute_values          |-> UpAttributeValues,
      template_lines            |-> UpTemplateLines,
      template_attribute_values |-> UpTemplateAttributeValues(pk),
      packagings                |-> UpPackagings(pk) ]

PackagingKinds == {"none", "unlinked", "linked"}

DisplayTypes == {"radio", "check_box"}

\* The datasets the upstream may hold when a reload runs: the scenario with
\* each kind of packaging reference, and a catalogue without categories.
Datasets ==
    { Upstream(TRUE, pk, "radio") : pk \in PackagingKinds }
    \cup { Upstream(FALSE, "linked", "radio") }

\* The scenario of the specification: no packaging reference, radio attribute.
Scenario == Upstream(TRUE, "none", "radio")

-----------------------------------------------------------------------------
(* OdooCacheService: the batched reads of reload_cache *)

\* The upstream calls of reload_cache in the order the code issues them.
FetchSteps ==
    << "authenticate", "pos.category", "product.product", "product.template",
       "product.attribute", "product.attribute.value",
       "product.template.attribute.line", "product.template.attribute.value",
       "product.packaging", "linked product.product", "linked product.template" >>

StepIndex(step) == CHOOSE i \in DOMAIN FetchSteps : FetchSteps[i] = step

\* search_read on product.product with [['available_in_pos', '=', True]]
odoo_products(d) == SelectSeq(d.products, LAMBDA p : p.available_in_pos)

\* list(set(prod['product_tmpl_id'][0] for prod in odoo_products if prod.get('product_tmpl_id')))
template_ids(d) == {p.product_tmpl_id : p \in Range(odoo_products(d))} \ {0}

\* search_read on product.template with [['id', 'in', template_ids]]
template_prices(d) ==
    IF template_ids(d) # {}
    THEN SelectSeq(d.templates, LAMBDA t : t.id \in template_ids(d))
    ELSE << >>

\* f"/images/categories/{item_id}.jpg", f"/images/products/{item_id}.jpg"
url_path(image_type, item_id) ==
    IF image_type = "category"
    THEN "/images/categories/" \o Str(item_id) \o ".jpg"
    ELSE "/images/products/" \o Str(item_id) \o ".jpg"

\* _save_image: the URL of the saved file, None ("") without image data
image_url_of(image_type, row) ==
    IF row.image THEN url_path(image_type, row.id) ELSE ""

categories_of(d) ==
    Map(LAMBDA cat : [id |-> cat.id, name |-> cat.name,
                      image_url |-> image_url_of("category", cat)],
        d.categories)

basic_products(d) ==
    Map(LAMBDA prod :
          [id |-> prod.id, name |-> prod.name, pos_categ_id |-> prod.pos_categ_id,
           list_price |-> IF prod.product_tmpl_id # 0
                             /\ HasId(template_prices(d), prod.product_tmpl_id)
                          THEN ById(template_prices(d), prod.product_tmpl_id).list_price
                          ELSE 0,
           image_url |-> image_url_of("product", prod),
           product_tmpl_id |-> prod.product_tmpl_id,
           available_in_pos |-> prod.available_in_pos],
        odoo_products(d))

\* search_read on product.template.attribute.line, POS templates only
template_lines(d) ==
    IF template_ids(d) # {}
    THEN SelectSeq(d.template_lines, LAMBDA l : l.product_tmpl_id \in template_ids(d))
    ELSE << >>

\* search_read on product.template.attribute.value, POS templates only
template_attribute_values(d) ==
    IF template_ids(d) # {}
    THEN SelectSeq(d.template_attribute_values,
                   LAMBDA v : v.product_tmpl_id \in template_ids(d))
    ELSE << >>

packaging_ids(d) ==
    Map(LAMBDA v : v.product_packaging_id,
        SelectSeq(template_attribute_values(d), LAMBDA v : v.product_packaging_id # 0))

\* search_read on product.packaging with [['id', 'in', packaging_ids]]
packaging_data(d) ==
    IF packaging_ids(d) # << >>
    THEN SelectSeq(d.packagings, LAMBDA k : k.id \in Range(packaging_ids(d)))
    ELSE << >>

linked_product_ids(d) ==
    Map(LAMBDA k : k.product_id, SelectSeq(packaging_data(d), LAMBDA k : k.product_id # 0))

\* search_read on product.product with [['id', 'in', linked_product_ids]]
linked_products_data(d) ==
    IF linked_product_ids(d) # << >>
    THEN SelectSeq(d.products, LAMBDA p : p.id \in Range(linked_product_ids(d)))
    ELSE << >>

linked_template_ids(d) ==
    Map(LAMBDA p : p.product_tmpl_id,
        SelectSeq(linked_products_data(d), LAMBDA p : p.product_tmpl_id # 0))

\* search_read on product.template with [['id', 'in', linked_template_ids]]
linked_template_prices(d) ==
    IF linked_template_ids(d) # << >>
    THEN SelectSeq(d.templates, LAMBDA t : t.id \in Range(linked_template_ids(d)))
    ELSE << >>

\* The upstream calls a reload of dataset d issues when none of them fails.
CallsMade(d) ==
    {"authenticate", "pos.category", "product.product", "product.attribute",
     "product.attribute.value"}
    \cup (IF template_ids(d) # {}
          THEN {"product.template", "product.template.attribute.line",
                "product.template.attribute.value"}
          ELSE {})
    \cup (IF packaging_ids(d) # << >> THEN {"product.packaging"} ELSE {})
    \cup (IF linked_product_ids(d) # << >> THEN {"linked product.product"} ELSE {})
    \cup (IF linked_template_ids(d) # << >> THEN {"linked product.template"} ELSE {})

\* linked_products_data and linked_template_prices are assigned only inside
\* "if packaging_ids:" and "if linked_product_ids:"; the call of
\* _process_attributes reads both.
LocalsBound(d) == packaging_ids(d) # << >> /\ linked_product_ids(d) # << >>

-----------------------------------------------------------------------------
(* OdooCacheService: attribute resolution and enrichment *)

Indices(s) == [i \in DOMAIN s |-> i]

\* template_id in values_by_template_and_attr
HasTemplateValues(tavs, template_id) ==
    \E i \in DOMAIN tavs : /\ tavs[i].product_tmpl_id = template_id
                           /\ tavs[i].product_tmpl_id # 0
                           /\ tavs[i].attribute_id # 0

\* values_by_template_and_attr[template_id].keys(), in insertion order
AttrIdsOf(tavs, template_id) ==
    LET first(i) == /\ tavs[i].product_tmpl_id = template_id
                    /\ tavs[i].attribute_id # 0
                    /\ \A j \in 1..(i - 1) :
                          ~ (/\ tavs[j].product_tmpl_id = template_id
                             /\ tavs[j].attribute_id = tavs[i].attribute_id)
    IN Map(LAMBDA i : tavs[i].attribute_id, SelectSeq(Indices(tavs), first))

\* the values of a template taken for each of its attributes alike
TemplateVals_any_attribute(tavs, template_id, attr_id) ==
    SelectSeq(tavs, LAMBDA v : v.product_tmpl_id = template_id)

\* values_by_template_and_attr[template_id][attr_id]
TemplateVals(tavs, template_id, attr_id) ==
    SelectSeq(tavs, LAMBDA v : v.product_tmpl_id = template_id /\ v.attribute_id = attr_id)

\* The value_data dictionary of one template attribute value.
ValueData(template_val, attribute_values, packagings, linked_products, linked_prices) ==
    LET base_val_id == template_val.product_attribute_value_id
        base == [id            |-> template_val.id,
                 name          |-> template_val.name,
                 price_extra   |-> template_val.price_extra,
                 base_value_id |-> base_val_id,
                 base_value_name |-> ById(attribute_values, base_val_id).name]
        pkg_id == template_val.product_packaging_id
        linked_product_id == IF pkg_id # 0 /\ HasId(packagings, pkg_id)
                             THEN ById(packagings, pkg_id).product_id ELSE 0
    IN IF linked_product_id # 0 /\ HasId(linked_products, linked_product_id)
       THEN LET linked_product == ById(linked_products, linked_product_id)
                linked_template_id == linked_product.product_tmpl_id
                linked_price == IF linked_template_id # 0
                                   /\ HasId(linked_prices, linked_template_id)
                                THEN ById(linked_prices, linked_template_id).list_price
                                ELSE 0
            IN base @@ [product_packaging_id |-> pkg_id,
                        linked_product_id    |-> linked_product_id,
                        linked_product_name  |-> linked_product.name,
                        linked_product_price |-> linked_price]
       ELSE base

\* line_values when a value without a known base value is kept as well
LineValues_keep_unknown(template_vals, attribute_values, packagings, linked_products, linked_prices) ==
    Map(LAMBDA v : IF HasId(attribute_values, v.product_attribute_value_id)
                   THEN ValueData(v, attribute_values, packagings, linked_products, linked_prices)
                   ELSE [id |-> v.id, name |-> v.name, price_extra |-> v.price_extra,
                         base_value_id |-> v.product_attribute_value_id,
                         base_value_name |-> "None"],
        template_vals)

\* line_values of one (template, attribute) group
LineValues(template_vals, attribute_values, packagings, linked_products, linked_prices) ==
    Map(LAMBDA v : ValueData(v, attribute_values, packagings, linked_products, linked_prices),
        SelectSeq(template_vals,
                  LAMBDA v : /\ v.product_attribute_value_id # 0
                             /\ HasId(attribute_values, v.product_attribute_value_id)))

\* attribute_lines of one product
AttributeLines(template_id, attributes, attribute_values, tavs, packagings, linked_products, linked_prices) ==
    LET values(attr_id) == LineValues(TemplateVals(tavs, template_id, attr_id),
                                      attribute_values, packagings,
                                      linked_products, linked_prices)
        kept == SelectSeq(AttrIdsOf(tavs, template_id),
                          LAMBDA a : HasId(attributes, a) /\ values(a) # << >>)
    IN Map(LAMBDA a : [attribute_id   |-> a,
                       attribute_name |-> ById(attributes, a).name,
                       display_type   |-> ById(attributes, a).display_type,
                       create_variant |-> ById(attributes, a).create_variant,
                       values         |-> values(a)],
           kept)

\* the last row of tab whose str(id) is key
ByKey(tab, key) ==
    tab[CHOOSE i \in DOMAIN tab :
            /\ Str(tab[i].id) = key
            /\ \A j \in DOMAIN tab : Str(tab[j].id) = key => j <= i]

_process_attributes(attributes, attribute_values, lines, tavs, products, packagings, linked_products, linked_prices) ==
    LET lines_of(product) ==
            IF product.product_tmpl_id # 0
               /\ HasTemplateValues(tavs, product.product_tmpl_id)
            THEN AttributeLines(product.product_tmpl_id, attributes, attribute_values,
                                tavs, packagings, linked_products, linked_prices)
            ELSE << >>
        entry(product) == [product_id      |-> product.id,
                           product_name    |-> product.name,
                           template_id     |-> product.product_tmpl_id,
                           attribute_lines |-> lines_of(product)]
        \* product_attributes[str(product_id)] = {...} for each row, in order
        dict(rows) == Tabulated([k \in {Str(row.id) : row \in Range(rows)} |->
                                    entry(ByKey(rows, k))])
    IN [ attributes       |-> Map(LAMBDA attr : [id |-> attr.id, name |-> attr.name,
                                                 create_variant |-> attr.create_variant,
                                                 display_type |-> attr.display_type],
                                  attributes),
         attribute_values |-> Map(LAMBDA val : [id |-> val.id, name |-> val.name,
                                                attribute_id |-> val.attribute_id],
                                  attribute_values),
         product_attributes |->
             dict(SelectSeq(products, LAMBDA product : lines_of(product) # << >>)) ]

\* max_extra of one attribute line when every display type takes the maximum
LineExtra_max_only(attr_line) ==
    MaxDefault0(Map(LAMBDA val : val.price_extra, attr_line.values))

\* max_extra of one attribute line
LineExtra(attr_line) ==
    LET extras == Map(LAMBDA val : val.price_extra, attr_line.values)
    IN IF attr_line.display_type = "check_box" THEN SeqSum(extras) ELSE MaxDefault0(extras)

_enrich_products_with_attributes(products, product_attributes) ==
    Map(LAMBDA product :
          LET product_id == Str(product.id)
              has == product_id \in DOMAIN product_attributes
              attribute_lines == IF has THEN product_attributes[product_id].attribute_lines
                                 ELSE << >>
              max_extra == SeqSum(Map(LineExtra, attribute_lines))
          IN [id |-> product.id, name |-> product.name,
              pos_categ_id |-> product.pos_categ_id,
              list_price |-> product.list_price,
              image_url |-> product.image_url,
              available_in_pos |-> product.available_in_pos,
              attribute_lines |-> attribute_lines,
              has_attributes |-> has,
              price_range |-> [min |-> product.list_price,
                               max |-> product.list_price + max_extra],
              template_id |-> product.product_tmpl_id],
        products)

_enrich_products_with_frontend_fields(products) ==
    Map(LAMBDA product :
          [id |-> product.id, name |-> product.name,
           pos_categ_id |-> product.pos_categ_id,
           list_price |-> product.list_price,
           image_url |-> product.image_url,
           attribute_lines |-> product.attribute_lines,
           has_attributes |-> product.has_attributes,
           price_range |-> product.price_range,
           template_id |-> product.template_id,
           is_available |-> product.available_in_pos,
           original_price |-> product.list_price,
           discount_percentage |-> 0],
        products)

_enrich_categories_with_frontend_fields(categories, products) ==
    Map(LAMBDA category :
          [id |-> category.id, name |-> category.name, image_url |-> category.image_url,
           is_active |-> TRUE,
           product_count |-> Cardinality({i \in DOMAIN products :
                                             /\ products[i].pos_categ_id # 0
                                             /\ products[i].pos_categ_id = category.id})],
        categories)

\* The locals of reload_cache after its reads of dataset d.
FetchedLocals(d) ==
    [ attributes                |-> d.attributes,
      attribute_values          |-> d.attribute_values,
      categories                |-> categories_of(d),
      products                  |-> basic_products(d),
      template_lines            |-> template_lines(d),
      template_attribute_values |-> template_attribute_values(d),
      packaging_data            |-> packaging_data(d),
      linked_products_data      |-> linked_products_data(d),
      linked_template_prices    |-> linked_template_prices(d) ]

\* attributes_data when only the values an attribute line declares are resolved
ResolvedLocals_by_lines(l) ==
    [ categories      |-> l.categories,
      products        |-> l.products,
      attributes_data |-> _process_attributes(
                              l.attributes, l.attribute_values, l.template_lines,
                              SelectSeq(l.template_attribute_values,
                                  LAMBDA v : \E i \in DOMAIN l.template_lines :
                                      /\ l.template_lines[i].product_tmpl_id = v.product_tmpl_id
                                      /\ l.template_lines[i].attribute_id = v.attribute_id
                                      /\ v.product_attribute_value_id
                                            \in Range(l.template_lines[i].value_ids)),
                              l.products, l.packaging_data,
                              l.linked_products_data, l.linked_template_prices) ]

\* attributes_data = self._process_attributes(...)
ResolvedLocals(l) ==
    [ categories      |-> l.categories,
      products        |-> l.products,
      attributes_data |-> _process_attributes(
                              l.attributes, l.attribute_values, l.template_lines,
                              l.template_attribute_values, l.products, l.packaging_data,
                              l.linked_products_data, l.linked_template_prices) ]

\* products = self._enrich_products_with_attributes(products, ...)
\* products = self._enrich_products_with_frontend_fields(products)
EnrichedLocals(l) ==
    [ categories      |-> l.categories,
      products        |-> _enrich_products_with_frontend_fields(
                              _enrich_products_with_attributes(
                                  l.products, l.attributes_data.product_attributes)),
      attributes_data |-> l.attributes_data ]

\* categories = self._enrich_categories_with_frontend_fields(categories, products)
\* and the five values reload_cache saves.
SavedLocals(l) ==
    [ categories         |-> _enrich_categories_with_frontend_fields(l.categories, l.products),
      products           |-> l.products,
      attributes         |-> l.attributes_data.attributes,
      attribute_values   |-> l.attributes_data.attribute_values,
      product_attributes |-> l.attributes_data.product_attributes ]

\* The locals of reload_cache at its successive points, per dataset.
Fetched == Tabulated([d \in Datasets |-> FetchedLocals(d)])

Resolved == Tabulated([d \in Datasets |-> ResolvedLocals(Fetched[d])])

Enriched == Tabulated([d \in Datasets |-> EnrichedLocals(Resolved[d])])

\* The snapshot reload_cache builds from dataset d once every read succeeded.
Snapshots == Tabulated([d \in Datasets |-> SavedLocals(Enriched[d])])

\* The upstream calls of a reload, and whether its locals are bound, per dataset.
Calls == Tabulated([d \in Datasets |-> CallsMade(d)])

Bound == Tabulated([d \in Datasets |-> LocalsBound(d)])

-----------------------------------------------------------------------------
(* OdooCacheService: the file cache *)

\* _load_json(filename) of a missing file with the default left at None
NoList_default_none == [exists |-> FALSE, data |-> << "None" >>]

\* _load_json(filename, default=[]) of a missing file
NoList == [exists |-> FALSE, data |-> << >>]

\* _load_json('product_attributes.json', default={}) of a missing file
NoDict == [exists |-> FALSE, data |-> [k \in {} |-> 0]]

\* the default of get_cache_status when metadata.json is missing (None is -1)
NoMetadata ==
    [exists |-> FALSE,
     data   |-> [last_updated |-> -1, categories_count |-> 0, products_count |-> 0,
                 total_images |-> 0]]

File(content) == [exists |-> TRUE, data |-> content]

EmptyLocal ==
    [categories |-> NoList, products |-> NoList, attributes |-> NoList,
     attribute_values |-> NoList, product_attributes |-> NoDict, metadata |-> NoMetadata]

NoImages == [categories |-> {}, products |-> {}]

\* the image files the _save_image calls of one table write
SavedImages(table) == {row.id : row \in {r \in Range(table) : r.image}}

\* _cleanup_old_images
_cleanup_old_images(imgs, categories, products) ==
    [categories |-> imgs.categories \cap {cat.id : cat \in Range(categories)},
     products   |-> imgs.products \cap {prod.id : prod \in Range(products)}]

_count_images(imgs) == Cardinality(imgs.categories) + Cardinality(imgs.products)

\* The image directory after a reload of d whose call number failedAt of
\* FetchSteps failed (Len(FetchSteps) + 1 when no call failed).
ImagesAfterFetch(imgs, d, failedAt) ==
    [categories |-> IF failedAt > StepIndex("pos.category")
                    THEN imgs.categories \cup SavedImages(d.categories)
                    ELSE imgs.categories,
     products   |-> IF failedAt > StepIndex("product.template")
                    THEN imgs.products \cup SavedImages(odoo_products(d))
                    ELSE imgs.products]

odoo_get_categories == local.categories.data

\* get_products if the file cache applied the TTL of the remote store
odoo_get_products_expiring ==
    IF local.metadata.exists /\ now - local.metadata.data.last_updated > CacheTtlHours
    THEN << >>
    ELSE local.products.data

odoo_get_products == local.products.data

odoo_get_products_by_category(category_id) ==
    SelectSeq(odoo_get_products,
              LAMBDA prod : prod.pos_categ_id # 0 /\ prod.pos_categ_id = category_id)

odoo_get_attributes == local.attributes.data

odoo_get_attribute_values == local.attribute_values.data

odoo_get_product_attributes == local.product_attributes.data

\* product_attributes.get(str(product_id), {}); {} is the empty sequence of lines
NoProductAttributes == [k \in {} |-> 0]

odoo_get_product_attributes_by_id(product_id) ==
    IF Str(product_id) \in DOMAIN odoo_get_product_attributes
    THEN odoo_get_product_attributes[Str(product_id)]
    ELSE NoProductAttributes

\* OdooCacheService defines no get_product_by_id: the attribute lookup raises
odoo_get_product_by_id(product_id) ==
    [raised |-> TRUE, error |-> "AttributeError", found |-> FALSE, id |-> product_id]

odoo_get_cache_status ==
    [current_images |-> _count_images(images)] @@ local.metadata.data

\* the six files a completed reload leaves (the _save_json calls)
WrittenCache(snap, metadata) ==
    [categories |-> File(snap.categories),
     products |-> File(snap.products),
     attributes |-> File(snap.attributes),
     attribute_values |-> File(snap.attribute_values),
     product_attributes |-> File(snap.product_attributes),
     metadata |-> File(metadata)]

\* the metadata dictionary reload_cache saves and returns
odoo_metadata(snap, imgs) ==
    [last_updated |-> now,
     categories_count |-> Len(snap.categories),
     products_count |-> Len(snap.products),
     attributes_count |-> Len(snap.attributes),
     attribute_values_count |-> Len(snap.attribute_values),
     products_with_attributes_count |-> Cardinality(DOMAIN snap.product_attributes),
     total_images |-> _count_images(imgs)]

\* the end of reload_cache: the _save_json calls and the metadata returned
SaveAndReturn(snap, metadata, imgs) ==
    [raised |-> FALSE, error |-> "",
     local  |-> WrittenCache(snap, metadata),
     images |-> imgs,
     metadata |-> metadata]

SaveWithImages(snap, imgs) == SaveAndReturn(snap, odoo_metadata(snap, imgs), imgs)

\* _cleanup_old_images, then the saves
CleanupAndSave(snap, imgs) ==
    SaveWithImages(snap, _cleanup_old_images(imgs, snap.categories, snap.products))

\* odoo_reload_cache with categories.json saved as soon as the categories are
\* processed instead of after the last upstream read
odoo_reload_cache_early_save(d, fail) ==
    IF fail # "none"
    THEN [raised |-> TRUE,
          error  |-> IF fail = "authenticate" THEN "ValueError" ELSE "Fault",
          local  |-> IF StepIndex(fail) > StepIndex("pos.category")
                     THEN [local EXCEPT !.categories = File(Fetched[d].categories)]
                     ELSE local,
          images |-> ImagesAfterFetch(images, d, StepIndex(fail)),
          metadata |-> NoMetadata.data]
    ELSE IF ~ Bound[d]
    THEN [raised |-> TRUE, error |-> "UnboundLocalError",
          local  |-> [local EXCEPT !.categories = File(Fetched[d].categories)],
          images |-> ImagesAfterFetch(images, d, Len(FetchSteps) + 1),
          metadata |-> NoMetadata.data]
    ELSE CleanupAndSave(Snapshots[d], ImagesAfterFetch(images, d, Len(FetchSteps) + 1))

\* OdooCacheService.reload_cache(): what it raises, writes and returns when
\* the upstream holds dataset d and the call 'fail' of FetchSteps ("none":
\* no call) fails.  Every _save_json comes after the last upstream read and
\* after the call of _process_attributes.
odoo_reload_cache(d, fail) ==
    IF fail # "none"
    THEN [raised |-> TRUE,
          error  |-> IF fail = "authenticate" THEN "ValueError" ELSE "Fault",
          local  |-> local,
          images |-> ImagesAfterFetch(images, d, StepIndex(fail)),
          metadata |-> NoMetadata.data]
    ELSE IF ~ Bound[d]
    THEN [raised |-> TRUE, error |-> "UnboundLocalError",
          local  |-> local,
          images |-> ImagesAfterFetch(images, d, Len(FetchSteps) + 1),
          metadata |-> NoMetadata.data]
    ELSE CleanupAndSave(Snapshots[d], ImagesAfterFetch(images, d, Len(FetchSteps) + 1))

-----------------------------------------------------------------------------
(* FirestoreCacheService *)

\* a document that does not exist (doc.exists is False)
NoDoc == [exists |-> FALSE, data |-> << >>, updated |-> -1]

NoAttributesDoc ==
    [exists |-> FALSE, attributes |-> << >>, attribute_values |-> << >>,
     product_attributes |-> [k \in {} |-> 0], updated |-> -1]

NoInfoDoc ==
    [exists |-> FALSE,
     data |-> [last_updated |-> -1, categories_count |-> 0, products_count |-> 0]]

EmptyRemote ==
    [metadata |-> NoInfoDoc, categories |-> NoDoc, products |-> NoDoc,
     attributes |-> NoAttributesDoc]

\* _is_cache_valid without the comparison against the cutoff
_is_cache_valid_no_cutoff(updated_timestamp) == updated_timestamp # -1

\* _is_cache_valid: the cache is valid while updated > now - ttl
_is_cache_valid(updated_timestamp) ==
    IF updated_timestamp = -1 THEN FALSE
    ELSE LET cutoff_time == now - CacheTtlHours
         IN updated_timestamp > cutoff_time

\* a document read: doc_ref.get() raises while the store is unreachable, and
\* every reader returns its empty value from the except branch
Readable(doc) == remoteUp /\ doc.exists /\ _is_cache_valid(doc.updated)

firestore_get_categories ==
    IF Readable(remote.categories) THEN remote.categories.data ELSE << >>

firestore_get_products ==
    IF Readable(remote.products) THEN remote.products.data ELSE << >>

firestore_get_products_by_category(category_id) ==
    SelectSeq(firestore_get_products,
              LAMBDA prod : prod.pos_categ_id # 0 /\ prod.pos_categ_id = category_id)

firestore_get_attributes ==
    IF Readable(remote.attributes) THEN remote.attributes.attributes ELSE << >>

firestore_get_attribute_values ==
    IF Readable(remote.attributes) THEN remote.attributes.attribute_values ELSE << >>

firestore_get_product_attributes ==
    IF Readable(remote.attributes) THEN remote.attributes.product_attributes
    ELSE [k \in {} |-> 0]

firestore_get_product_attributes_by_id(product_id) ==
    IF Str(product_id) \in DOMAIN firestore_get_product_attributes
    THEN firestore_get_product_attributes[Str(product_id)]
    ELSE NoProductAttributes

firestore_is_cache_empty ==
    Len(firestore_get_categories) = 0 \/ Len(firestore_get_products) = 0

firestore_get_cache_status ==
    IF ~ remoteUp THEN [cache_source |-> "firestore", cache_status |-> "error"]
    ELSE IF remote.metadata.exists THEN remote.metadata.data
    ELSE [cache_source |-> "firestore", cache_status |-> "empty"] @@ NoInfoDoc.data

\* the metadata save_cache_data builds and returns
firestore_metadata(categories, products, attributes, attribute_values, product_attributes) ==
    [last_updated |-> now,
     categories_count |-> Len(categories),
     products_count |-> Len(products),
     attributes_count |-> Len(attributes),
     attribute_values_count |-> Len(attribute_values),
     products_with_attributes_count |-> Cardinality(DOMAIN product_attributes),
     cache_version |-> "1.0"]

\* the four documents one committed batch of save_cache_data leaves
save_cache_data(categories, products, attributes, attribute_values, product_attributes) ==
    [metadata   |-> [exists |-> TRUE,
                     data |-> firestore_metadata(categories, products, attributes,
                                                 attribute_values, product_attributes)],
     categories |-> [exists |-> TRUE, data |-> categories, updated |-> now],
     products   |-> [exists |-> TRUE, data |-> products, updated |-> now],
     attributes |-> [exists |-> TRUE, attributes |-> attributes,
                     attribute_values |-> attribute_values,
                     product_attributes |-> product_attributes, updated |-> now]]

-----------------------------------------------------------------------------
(* HybridCacheService: the read accessors *)

\* the backend choice without the environment test
UseFirestore_any_environment == firestore_service

UseFirestore == is_cloud_run /\ firestore_service

get_categories ==
    IF UseFirestore
    THEN IF firestore_get_categories # << >> THEN firestore_get_categories
         ELSE odoo_get_categories
    ELSE odoo_get_categories

\* get_products without the fallback to the file cache
get_products_no_fallback ==
    IF UseFirestore THEN firestore_get_products ELSE odoo_get_products

get_products ==
    IF UseFirestore
    THEN IF firestore_get_products # << >> THEN firestore_get_products
         ELSE odoo_get_products
    ELSE odoo_get_products

get_product_by_id(product_id) ==
    IF UseFirestore
    THEN IF firestore_get_products # << >>
         THEN [raised |-> FALSE, error |-> "",
               found |-> \E i \in DOMAIN firestore_get_products :
                            firestore_get_products[i].id = product_id,
               id |-> product_id]
         ELSE odoo_get_product_by_id(product_id)
    ELSE odoo_get_product_by_id(product_id)

get_products_by_category(category_id) ==
    IF UseFirestore THEN firestore_get_products_by_category(category_id)
    ELSE odoo_get_products_by_category(category_id)

get_attributes ==
    IF UseFirestore
    THEN IF firestore_get_attributes # << >> THEN firestore_get_attributes
         ELSE odoo_get_attributes
    ELSE odoo_get_attributes

get_attribute_values ==
    IF UseFirestore
    THEN IF firestore_get_attribute_values # << >> THEN firestore_get_attribute_values
         ELSE odoo_get_attribute_values
    ELSE odoo_get_attribute_values

get_product_attributes ==
    IF UseFirestore
    THEN IF DOMAIN firestore_get_product_attributes # {}
         THEN firestore_get_product_attributes
         ELSE odoo_get_product_attributes
    ELSE odoo_get_product_attributes

get_product_attributes_by_id(product_id) ==
    IF UseFirestore THEN firestore_get_product_attributes_by_id(product_id)
    ELSE odoo_get_product_attributes_by_id(product_id)

is_cache_empty ==
    IF UseFirestore THEN firestore_is_cache_empty
    ELSE Len(odoo_get_categories) = 0 \/ Len(odoo_get_products) = 0

get_cache_status ==
    IF UseFirestore
    THEN [cache_backend |-> "firestore", environment |-> "cloud_run"]
         @@ firestore_get_cache_status
    ELSE [cache_backend |-> "file", environment |-> "local"] @@ odoo_get_cache_status

\* What the Odoo server does with a call: it is unreachable, it answers and
\* authenticate returns False, or it answers and authenticate returns a uid.
Upstreams == {"down", "rejects", "accepts"}

\* OdooCacheService.test_connection without its try/except
odoo_test_connection_unguarded(upstream) ==
    IF upstream = "down"
    THEN [raised |-> TRUE, status |-> "", authenticated |-> FALSE]
    ELSE [raised |-> FALSE, status |-> "success", authenticated |-> upstream = "accepts"]

\* OdooCacheService.test_connection: version() and authenticate() in a try,
\* 'authenticated': uid is not False
odoo_test_connection(upstream) ==
    IF upstream = "down"
    THEN [raised |-> FALSE, status |-> "error", authenticated |-> FALSE]
    ELSE [raised |-> FALSE, status |-> "success", authenticated |-> upstream = "accepts"]

\* FirestoreCacheService.health_check: reads the metadata document
health_check ==
    IF remoteUp THEN [firestore_status |-> "healthy"]
    ELSE [firestore_status |-> "unhealthy"]

\* result = {'odoo': ..., 'cache_backend': ..., 'environment': ...} and the
\* 'firestore' key, absent ("") unless Firestore is tested
TestResult(upstream, odoo_result) ==
    [op            |-> "test_connection",
     upstream      |-> upstream,
     raised        |-> odoo_result.raised,
     cache_backend |-> IF ~ is_cloud_run THEN "file" ELSE "firestore",
     environment   |-> IF ~ is_cloud_run THEN "local" ELSE "cloud_run",
     odoo          |-> [status |-> odoo_result.status,
                        authenticated |-> odoo_result.authenticated],
     firestore     |-> IF is_cloud_run /\ firestore_service THEN health_check
                       ELSE [firestore_status |-> ""]]

\* HybridCacheService.test_connection
test_connection(upstream) == TestResult(upstream, odoo_test_connection(upstream))

-----------------------------------------------------------------------------
(* The state machine *)

NoResult ==
    [op |-> "none", dataset |-> << >>, outcome |-> "none",
     error |-> "", remote_write |-> "skipped", value |-> NoMetadata.data]

\* no reload is inside its _save_json calls
NoSaving ==
    [active |-> FALSE, dataset |-> << >>, pending |-> << >>, before |-> EmptyLocal,
     target |-> EmptyLocal, images |-> NoImages]

NoRead ==
    [name |-> "", raised |-> FALSE, error |-> "", data |-> << >>,
     before |-> << >>, after |-> << >>]

FilesInit ==
    /\ saving = NoSaving
    /\ writing = ""
    /\ read = NoRead

\* The callers of the pool (threads).
Callers == 1 .. 2

\* a caller that holds no connection
NoHold == [connection |-> 0, call |-> "none"]

NoOp ==
    [op |-> "none", connection |-> 0, outcome |-> "none", error |-> "",
     valid_credentials |-> TRUE, authenticate_calls |-> 0]

\* OdooConnectionPool.__init__
PoolInit ==
    /\ _pool = << >>
    /\ _active_connections = {}
    /\ connections = << >>
    /\ _total_created = 0
    /\ _total_reused = 0
    /\ clock = 0
    /\ held = [c \in Callers |-> NoHold]
    /\ last_op = NoOp

\* a thread outside get_connection and release_connection
NoFrame == [pc |-> "idle", connection |-> 0, pooled_connections |-> << >>, seen |-> 0]

ThreadsInit ==
    /\ _lock = 0
    /\ frame = [c \in Callers |-> NoFrame]
    /\ returned = [created |-> 0, reused |-> 0]

\* The (odoo_url, db, username) keys and the passwords the callers use.
PoolKeys == {<<"https://odoo", "pos", "api">>, <<"https://odoo", "pos", "admin">>}

Passwords == {"secret", "other"}

\* a thread outside get_connection_pool
NoCall == [pc |-> "idle", pool_key |-> << >>, password |-> "", pool |-> 0]

\* _connection_pools = {} and _pool_lock = threading.Lock(); a key that is
\* not in the dictionary maps to 0
RegistryInit ==
    /\ _connection_pools = [pool_key \in PoolKeys |-> 0]
    /\ _pool_lock = 0
    /\ pools = << >>
    /\ factory = [c \in Callers |-> NoCall]

NoRun == [input |-> << >>, done |-> FALSE, product_attributes |-> << >>, products |-> << >>]

\* no test_connection call yet
NoStatus ==
    [op |-> "none", upstream |-> "", raised |-> FALSE, cache_backend |-> "",
     environment |-> "", odoo |-> [status |-> "", authenticated |-> FALSE],
     firestore |-> [firestore_status |-> ""]]

\* The client addresses _get_client_ip returns, and the paths requested.
Clients == {"127.0.0.1", "10.0.0.2"}

Paths == {"/api/v1/products", "/health"}

\* a client IP that is no key of request_counts
NoEntry == [present |-> FALSE, requests |-> << >>, first_request |-> 0]

NoResponse == [path |-> "", client_ip |-> "", status_code |-> 0]

\* RateLimitingMiddleware.__init__
LimiterInit ==
    /\ request_counts = [ip \in Clients |-> NoEntry]
    /\ admitted = [ip \in Clients |-> << >>]
    /\ response = NoResponse

RestInit ==
    /\ ThreadsInit
    /\ RegistryInit
    /\ resolver = NoRun
    /\ status = NoStatus
    /\ LimiterInit

Init ==
    /\ is_cloud_run \in BOOLEAN
    /\ firestore_service \in BOOLEAN
    /\ local = EmptyLocal
    /\ images = NoImages
    /\ remote = EmptyRemote
    /\ remoteUp = TRUE
    /\ now = 0
    /\ result = NoResult
    /\ FilesInit
    /\ PoolInit
    /\ RestInit

\* save_to_firestore with an except branch that re-raises
save_to_firestore_reraise(written, metadata) ==
    IF firestore_service /\ remoteUp
    THEN LET docs == save_cache_data(written.categories.data, written.products.data,
                                     written.attributes.data,
                                     written.attribute_values.data,
                                     written.product_attributes.data)
         IN [remote |-> docs, outcome |-> "returned", remote_write |-> "committed",
             value |-> docs.metadata.data]
    ELSE [remote |-> remote,
          outcome |-> IF firestore_service THEN "raised" ELSE "returned",
          remote_write |-> IF firestore_service THEN "failed" ELSE "skipped",
          value |-> metadata]

\* HybridCacheService.reload_cache() after odoo_service.reload_cache()
\* returned: the save to Firestore inside try/except and the value returned.
\* written is the file cache the reload left, read back with the get_* of
\* the Odoo service.
save_to_firestore(written, metadata) ==
    IF firestore_service /\ remoteUp
    THEN LET docs == save_cache_data(written.categories.data, written.products.data,
                                     written.attributes.data,
                                     written.attribute_values.data,
                                     written.product_attributes.data)
         IN [remote |-> docs, outcome |-> "returned", remote_write |-> "committed",
             value |-> docs.metadata.data]
    ELSE [remote |-> remote, outcome |-> "returned",
          remote_write |-> IF firestore_service THEN "failed" ELSE "skipped",
          value |-> metadata]

\* The state HybridCacheService.reload_cache() leaves, odoo being what
\* odoo_service.reload_cache() did and sync what the save to Firestore did.
ReloadEffect(d, odoo, sync) ==
    /\ local' = odoo.local
    /\ images' = odoo.images
    /\ IF odoo.raised
       THEN /\ remote' = remote
            /\ result' = [op |-> "reload_cache", dataset |-> d.name,
                          outcome |-> "raised", error |-> odoo.error,
                          remote_write |-> "skipped", value |-> NoMetadata.data]
       ELSE /\ remote' = sync.remote
            /\ result' = [op |-> "reload_cache", dataset |-> d.name,
                          outcome |-> sync.outcome, error |-> "",
                          remote_write |-> sync.remote_write, value |-> sync.value]
    /\ UNCHANGED <<is_cloud_run, firestore_service, remoteUp, now>>
    /\ UNCHANGED <<fileVars, poolVars, restVars>>

ReloadThenSave(d, odoo) ==
    ReloadEffect(d, odoo, save_to_firestore(odoo.local, odoo.metadata))

\* HybridCacheService.reload_cache() with the upstream holding dataset d and
\* the upstream call 'fail' failing ("none": every call succeeds).
reload_cache(d, fail) == ReloadThenSave(d, odoo_reload_cache(d, fail))

\* The upstream calls whose failure is injected: authentication, the first
\* read, a read after the category images were saved and the last read.
FailPoints == {"authenticate", "pos.category", "product.product", "linked product.template"}

Reload ==
    \E d \in Datasets : \E fail \in {"none"} \cup (FailPoints \cap Calls[d]) :
        reload_cache(d, fail)

\* Firestore becomes unreachable: every later Firestore call raises.
RemoteFails ==
    /\ firestore_service
    /\ remoteUp
    /\ remoteUp' = FALSE
    /\ UNCHANGED <<is_cloud_run, firestore_service, local, images, remote, now, result>>
    /\ UNCHANGED <<fileVars, poolVars, restVars>>

RemoteRecovers ==
    /\ ~ remoteUp
    /\ remoteUp' = TRUE
    /\ UNCHANGED <<is_cloud_run, firestore_service, local, images, remote, now, result>>
    /\ UNCHANGED <<fileVars, poolVars, restVars>>

\* datetime.now() advances; the clock is observed every half TTL.
TickHours == CacheTtlHours \div 2

Tick ==
    /\ now + TickHours <= MaxTime
    /\ now' = now + TickHours
    /\ UNCHANGED <<is_cloud_run, firestore_service, local, images, remote, remoteUp, result>>
    /\ UNCHANGED <<fileVars, poolVars, restVars>>

\* A call of test_connection: it writes no file and no document.
TestConnection ==
    /\ \E upstream \in Upstreams : status' = test_connection(upstream)
    /\ UNCHANGED <<cacheVars, fileVars, poolVars, threadVars, registryVars, resolver,
                 limiterVars>>

Next == Reload \/ RemoteFails \/ RemoteRecovers \/ Tick \/ TestConnection

Spec == Init /\ [][Next]_vars

-----------------------------------------------------------------------------
(* OdooCacheService: the cache files while reload_cache writes them.  A     *)
(* reload is taken from the first _save_json on: open(filepath, 'w')        *)
(* truncates the file, json.dump and the close complete it.  A get of       *)
(* another thread or process may run between any two of these steps.        *)

\* an order of the saves with metadata.json first
SaveOrder_metadata_first ==
    << "metadata", "categories", "products", "attributes", "attribute_values",
       "product_attributes" >>

\* The files in the order reload_cache saves them.
SaveOrder ==
    << "categories", "products", "attributes", "attribute_values",
       "product_attributes", "metadata" >>

\* The files the collection accessors load.
CollectionFiles ==
    {"categories", "products", "attributes", "attribute_values", "product_attributes"}

\* _load_json(filename, default): the default when the file is missing,
\* json.load otherwise, which raises on a file that holds only a proper
\* prefix of the document (no try/except in _load_json or in its callers).
_load_json(name) ==
    IF writing = name
    THEN [raised |-> TRUE, error |-> "JSONDecodeError", data |-> << >>]
    ELSE [raised |-> FALSE, error |-> "", data |-> local[name].data]

\* What saving holds when reload_cache reaches its first _save_json.
SavingOf(d, odoo) ==
    [active |-> TRUE, dataset |-> d.name, pending |-> SaveOrder, before |-> local,
     target |-> odoo.local, images |-> odoo.images]

\* reload_cache up to its first _save_json: the reads and _process_attributes
StartSaving(d) ==
    /\ ~ saving.active
    /\ Bound[d]
    /\ saving' = SavingOf(d, odoo_reload_cache(d, "none"))
    /\ images' = ImagesAfterFetch(images, d, Len(FetchSteps) + 1)
    /\ UNCHANGED <<is_cloud_run, firestore_service, local, remote, remoteUp, now, result>>
    /\ UNCHANGED <<writing, read, poolVars, restVars>>

\* with open(filepath, 'w', encoding='utf-8') as f:
OpenFile ==
    /\ saving.active
    /\ saving.pending # << >>
    /\ writing = ""
    /\ writing' = Head(saving.pending)
    /\ UNCHANGED <<cacheVars, saving, read, poolVars, restVars>>

\* json.dump(data, f, ...) and the close of the file; _cleanup_old_images
\* runs between the save of product_attributes.json and that of metadata.json
CloseFile ==
    /\ writing # ""
    /\ local' = [local EXCEPT ![writing] = saving.target[writing]]
    /\ images' = IF writing = "product_attributes" THEN saving.images ELSE images
    /\ saving' = [saving EXCEPT !.pending = Tail(saving.pending)]
    /\ writing' = ""
    /\ UNCHANGED <<is_cloud_run, firestore_service, remote, remoteUp, now, result>>
    /\ UNCHANGED <<read, poolVars, restVars>>

\* The rest of HybridCacheService.reload_cache once metadata.json is saved.
ReturnEffect(sync) ==
    /\ remote' = sync.remote
    /\ result' = [op |-> "reload_cache", dataset |-> saving.dataset,
                  outcome |-> sync.outcome, error |-> "",
                  remote_write |-> sync.remote_write, value |-> sync.value]
    /\ saving' = NoSaving
    /\ UNCHANGED <<is_cloud_run, firestore_service, local, images, remoteUp, now>>
    /\ UNCHANGED <<writing, read, poolVars, restVars>>

ReturnFromReload ==
    /\ saving.active
    /\ saving.pending = << >>
    /\ writing = ""
    /\ ReturnEffect(save_to_firestore(local, local.metadata.data))

\* A collection accessor of OdooCacheService called while a reload saves.
GetOutcome(name, loaded) ==
    [name |-> name, raised |-> loaded.raised, error |-> loaded.error,
     data |-> loaded.data, before |-> saving.before[name].data,
     after |-> saving.target[name].data]

GetWhileSaving(name) ==
    /\ saving.active
    /\ read' = GetOutcome(name, _load_json(name))
    /\ UNCHANGED <<cacheVars, saving, writing, poolVars, restVars>>

Get == \E name \in CollectionFiles : GetWhileSaving(name)

Save == \E d \in Datasets : StartSaving(d)

\* The file cache in the local environment, its reload taken save by save.
InitFiles ==
    /\ is_cloud_run = FALSE
    /\ firestore_service = FALSE
    /\ local = EmptyLocal
    /\ images = NoImages
    /\ remote = EmptyRemote
    /\ remoteUp = TRUE
    /\ now = 0
    /\ result = NoResult
    /\ FilesInit
    /\ PoolInit
    /\ RestInit

NextFiles == Save \/ OpenFile \/ CloseFile \/ ReturnFromReload \/ Get

SpecFiles == InitFiles /\ [][NextFiles]_vars

\* The same reload with a Firestore service that may be configured, and
\* reachable or not, when the file cache has been saved.
InitStores ==
    /\ is_cloud_run \in BOOLEAN
    /\ firestore_service \in BOOLEAN
    /\ local = EmptyLocal
    /\ images = NoImages
    /\ remote = EmptyRemote
    /\ remoteUp \in BOOLEAN
    /\ now = 0
    /\ result = NoResult
    /\ FilesInit
    /\ PoolInit
    /\ RestInit

SpecStores == InitStores /\ [][NextFiles]_vars

-----------------------------------------------------------------------------
(* OdooConnectionPool.  A connection is named by its rank of creation (the  *)
(* code uses id(self)); the idle queue and the active table hold these      *)
(* names.  The pool under check is built with max_connections = 1, so that *)
(* two callers are enough to fill it; the two time limits are 1 and 2 units *)
(* of the clock.                                                            *)

max_connections == 1

max_idle_time == 1

max_connection_age == 2

\* Connections created, connections reused and clock readings are explored up
\* to these bounds.
MaxCreated == 2

MaxReused == 1

MaxClock == 3

\* OdooConnection.is_expired
is_expired(conn) == (clock - conn.created_at) > max_connection_age

\* OdooConnection.is_idle_too_long
is_idle_too_long(conn) == (clock - conn.last_used) > max_idle_time

\* the test of the two limits without the one on the age
Stale_idle_only(conn) == is_idle_too_long(conn)

\* conn.is_expired(self.max_connection_age) or conn.is_idle_too_long(self.max_idle_time)
Stale(conn) == is_expired(conn) \/ is_idle_too_long(conn)

\* Queue.put_nowait on a queue without a size limit
put_nowait_unbounded(queue, id) == [full |-> FALSE, queue |-> Append(queue, id)]

\* Queue.put_nowait: raises Full when 0 < maxsize <= qsize()
put_nowait(queue, id) ==
    IF 0 < max_connections /\ max_connections <= Len(queue)
    THEN [full |-> TRUE, queue |-> queue]
    ELSE [full |-> FALSE, queue |-> Append(queue, id)]

\* _cleanup_expired_connections that leaves the active table alone
_cleanup_expired_connections_pool_only ==
    [active |-> _active_connections,
     pool   |-> SelectSeq(_pool, LAMBDA id : ~ Stale(connections[id]))]

\* _cleanup_expired_connections: both collections without their stale members
_cleanup_expired_connections ==
    [active |-> {id \in _active_connections : ~ Stale(connections[id])},
     pool   |-> SelectSeq(_pool, LAMBDA id : ~ Stale(connections[id]))]

\* _create_connection counting the connection before it authenticates
_create_connection_count_first(valid_credentials) ==
    IF ~ valid_credentials
    THEN [raised |-> TRUE, error |-> "ValueError", connection |-> 0,
          connections |-> connections, total_created |-> _total_created + 1]
    ELSE [raised |-> FALSE, error |-> "", connection |-> Len(connections) + 1,
          connections |-> Append(connections, [created_at |-> clock, last_used |-> clock,
                                               in_use |-> FALSE]),
          total_created |-> _total_created + 1]

\* _create_connection: authenticate once, raise ValueError on a falsy uid
_create_connection(valid_credentials) ==
    IF ~ valid_credentials
    THEN [raised |-> TRUE, error |-> "ValueError", connection |-> 0,
          connections |-> connections, total_created |-> _total_created]
    ELSE [raised |-> FALSE, error |-> "", connection |-> Len(connections) + 1,
          connections |-> Append(connections, [created_at |-> clock, last_used |-> clock,
                                               in_use |-> FALSE]),
          total_created |-> _total_created + 1]

\* get_connection, the branch of a non-empty queue
Reuse(swept, id) ==
    [outcome |-> "reused", error |-> "", connection |-> id,
     pool |-> Tail(swept.pool), active |-> swept.active \cup {id},
     connections |-> [connections EXCEPT ![id].last_used = clock, ![id].in_use = TRUE],
     total_created |-> _total_created, total_reused |-> _total_reused + 1,
     authenticate_calls |-> 0]

\* get_connection, the except Empty branch
Create(swept, created) ==
    [outcome |-> IF created.raised THEN "raised" ELSE "created",
     error |-> created.error, connection |-> created.connection,
     pool |-> swept.pool,
     active |-> IF created.raised THEN swept.active
                ELSE swept.active \cup {created.connection},
     connections |-> IF created.raised THEN created.connections
                     ELSE [created.connections EXCEPT ![created.connection].in_use = TRUE],
     total_created |-> created.total_created, total_reused |-> _total_reused,
     authenticate_calls |-> 1]

GetFrom(swept, valid_credentials) ==
    IF swept.pool # << >> THEN Reuse(swept, Head(swept.pool))
    ELSE Create(swept, _create_connection(valid_credentials))

\* get_connection that never takes a connection from the queue
get_connection_always_create(valid_credentials) ==
    Create(_cleanup_expired_connections, _create_connection(valid_credentials))

\* get_connection that waits while max_connections connections are out
get_connection_blocking(valid_credentials) ==
    IF Cardinality(_active_connections) >= max_connections
    THEN [outcome |-> "blocked", error |-> "", connection |-> 0, pool |-> _pool,
          active |-> _active_connections, connections |-> connections,
          total_created |-> _total_created, total_reused |-> _total_reused,
          authenticate_calls |-> 0]
    ELSE GetFrom(_cleanup_expired_connections, valid_credentials)

\* get_connection: sweep, then reuse the head of the queue or create
get_connection(valid_credentials) ==
    GetFrom(_cleanup_expired_connections, valid_credentials)

\* release_connection, from the test on the two limits on
ReturnToPool(id, conn, put, keep) ==
    [outcome |-> IF keep /\ ~ put.full THEN "pooled" ELSE "discarded",
     pool |-> IF keep THEN put.queue ELSE _pool,
     active |-> _active_connections \ {id},
     connections |-> [connections EXCEPT ![id] = conn]]

\* release_connection that returns expired connections to the queue
release_connection_no_expiry(id) ==
    ReturnToPool(id, [connections[id] EXCEPT !.in_use = FALSE, !.last_used = clock],
                 put_nowait(_pool, id), TRUE)

ReleaseMarked(id, conn) == ReturnToPool(id, conn, put_nowait(_pool, id), ~ Stale(conn))

\* release_connection: in_use = False, mark_used, out of the active table,
\* back to the queue unless expired, idle too long or the queue is full
release_connection(id) ==
    ReleaseMarked(id, [connections[id] EXCEPT !.in_use = FALSE, !.last_used = clock])

\* execute_kw releasing only after a call that returned
execute_kw_exit_no_finally(id, rpc_ok) ==
    IF rpc_ok THEN release_connection(id)
    ELSE [outcome |-> "kept", pool |-> _pool, active |-> _active_connections,
          connections |-> connections]

\* execute_kw: the finally block
execute_kw_exit(id, rpc_ok) == release_connection(id)

\* close_all that leaves the active table alone
close_all_keep_active == [active |-> _active_connections, pool |-> << >>]

\* close_all that clears the active table and leaves the queue as it is
close_all_keep_pool == [active |-> {}, pool |-> _pool]

\* close_all
close_all == [active |-> {}, pool |-> << >>]

\* get_pool_stats, without reuse_ratio (a quotient of the two counters)
get_pool_stats ==
    [pool_size          |-> Len(_pool),
     active_connections |-> Cardinality(_active_connections),
     max_connections    |-> max_connections,
     total_created      |-> _total_created,
     total_reused       |-> _total_reused]

\* The pool after get_connection, whoever called it
Acquire(c, op, call, valid_credentials, got) ==
    /\ got.outcome = "created" => Len(connections) < MaxCreated
    /\ got.outcome = "reused" => _total_reused < MaxReused
    /\ _pool' = got.pool
    /\ _active_connections' = got.active
    /\ connections' = got.connections
    /\ _total_created' = got.total_created
    /\ _total_reused' = got.total_reused
    /\ held' = IF got.connection = 0 THEN held
               ELSE [held EXCEPT ![c] = [connection |-> got.connection, call |-> call]]
    /\ last_op' = [op |-> op, connection |-> got.connection,
                   outcome |-> got.outcome, error |-> got.error,
                   valid_credentials |-> valid_credentials,
                   authenticate_calls |-> got.authenticate_calls]
    /\ UNCHANGED <<clock, cacheVars, fileVars, restVars>>

\* The pool after release_connection, whoever called it
Release(c, op, id, outcome, error, released) ==
    /\ _pool' = released.pool
    /\ _active_connections' = released.active
    /\ connections' = released.connections
    /\ held' = [held EXCEPT ![c] = NoHold]
    /\ last_op' = [op |-> op, connection |-> id,
                   outcome |-> IF op = "execute_kw" THEN outcome ELSE released.outcome,
                   error |-> error, valid_credentials |-> TRUE, authenticate_calls |-> 0]
    /\ UNCHANGED <<_total_created, _total_reused, clock, cacheVars, fileVars, restVars>>

\* A caller without a connection calls get_connection
GetConnection(c) ==
    /\ held[c] = NoHold
    /\ \E valid_credentials \in BOOLEAN :
          Acquire(c, "get_connection", "get_connection", valid_credentials,
                  get_connection(valid_credentials))

\* The caller gives back the connection it got from get_connection
ReleaseConnection(c) ==
    /\ held[c].call = "get_connection"
    /\ Release(c, "release_connection", held[c].connection, "", "",
               release_connection(held[c].connection))

\* execute_kw up to the remote call: a failed get_connection ends the call
ExecuteKwCall(c) ==
    /\ held[c] = NoHold
    /\ \E valid_credentials \in BOOLEAN :
          Acquire(c, "execute_kw", "execute_kw", valid_credentials,
                  get_connection(valid_credentials))

\* execute_kw from the remote call on: it returns or raises, then finally
ExecuteKwExit(c) ==
    /\ held[c].call = "execute_kw"
    /\ \E rpc_ok \in BOOLEAN :
          Release(c, "execute_kw", held[c].connection,
                  IF rpc_ok THEN "returned" ELSE "raised",
                  IF rpc_ok THEN "" ELSE "Fault",
                  execute_kw_exit(held[c].connection, rpc_ok))

\* _cleanup_expired_connections called on its own
Swept(swept) ==
    /\ _pool' = swept.pool
    /\ _active_connections' = swept.active
    /\ last_op' = [NoOp EXCEPT !.op = "_cleanup_expired_connections"]
    /\ UNCHANGED <<connections, _total_created, _total_reused, clock, held,
                   cacheVars, fileVars, restVars>>

Sweep == Swept(_cleanup_expired_connections)

Closed(closed) ==
    /\ _pool' = closed.pool
    /\ _active_connections' = closed.active
    /\ last_op' = [NoOp EXCEPT !.op = "close_all"]
    /\ UNCHANGED <<connections, _total_created, _total_reused, clock, held,
                   cacheVars, fileVars, restVars>>

CloseAll == Closed(close_all)

\* time.time() advances
TickClock ==
    /\ clock < MaxClock
    /\ clock' = clock + 1
    /\ UNCHANGED <<_pool, _active_connections, connections, _total_created,
                   _total_reused, held, last_op, cacheVars, fileVars, restVars>>

Get_Connection == \E c \in Callers : GetConnection(c)

Release_Connection == \E c \in Callers : ReleaseConnection(c)

Execute_Kw_Call == \E c \in Callers : ExecuteKwCall(c)

Execute_Kw_Exit == \E c \in Callers : ExecuteKwExit(c)

InitPool == InitFiles

NextPool ==
    \/ Get_Connection
    \/ Release_Connection
    \/ Execute_Kw_Call
    \/ Execute_Kw_Exit
    \/ Sweep
    \/ CloseAll
    \/ TickClock

SpecPool == InitPool /\ [][NextPool]_vars

-----------------------------------------------------------------------------
(* OdooConnectionPool under threads.  get_connection and                    *)
(* release_connection run statement by statement; a step is one operation   *)
(* on the queue (Queue synchronises each of its methods), one block under   *)
(* self._lock, or one read or write of a counter (self._total_created += 1  *)
(* and self._total_reused += 1 are a read and a write, outside any lock).   *)
(* What a thread does to a connection only it can reach goes with the step  *)
(* before.                                                                  *)

\* Queue.get_nowait
get_nowait(queue) ==
    IF queue = << >> THEN [empty |-> TRUE, item |-> 0, queue |-> queue]
    ELSE [empty |-> FALSE, item |-> Head(queue), queue |-> Tail(queue)]

\* self._pool.get_nowait() that reads the head and leaves it in the queue
TakeFromPool_peek(queue) == [get_nowait(queue) EXCEPT !.queue = queue]

\* connection = self._pool.get_nowait() of get_connection
TakeFromPool(queue) == get_nowait(queue)

\* threads of get_connection that have no connection yet, and those that took
\* one from the queue and have not returned
SeekingPcs == {"cleanup", "drain", "put_back", "take", "authenticate"}

ReusingPcs == {"track_reused", "read_reused", "write_reused"}

\* get_connection calls are explored up to this bound.
MaxStarted == 3

\* get_connection calls so far that got or may still get a connection
Started ==
    Len(connections) + returned.reused
    + Cardinality({c \in Callers : frame[c].pc \in SeekingPcs \cup ReusingPcs})

Jump(c, pc) == frame' = [frame EXCEPT ![c].pc = pc]

\* a thread calls get_connection
CallGetConnection(c) ==
    /\ frame[c].pc = "idle"
    /\ held[c] = NoHold
    /\ Started < MaxStarted
    /\ Jump(c, "cleanup")
    /\ UNCHANGED <<poolVars, _lock, returned, cacheVars, fileVars, registryVars, resolver, status, limiterVars>>

\* _cleanup_expired_connections: with self._lock, the active table
CleanupActive(c) ==
    /\ frame[c].pc = "cleanup"
    /\ _lock = 0
    /\ _lock' = c
    /\ _active_connections' = {id \in _active_connections : ~ Stale(connections[id])}
    /\ frame' = [frame EXCEPT ![c].pc = "drain", ![c].pooled_connections = << >>]
    /\ UNCHANGED <<_pool, connections, _total_created, _total_reused, clock, held, last_op,
                   returned, cacheVars, fileVars, registryVars, resolver, status, limiterVars>>

\* one turn of "while True: conn = self._pool.get_nowait()"
Drained(c, got) ==
    /\ _pool' = got.queue
    /\ frame' = IF got.empty THEN [frame EXCEPT ![c].pc = "put_back"]
                ELSE IF Stale(connections[got.item]) THEN frame
                ELSE [frame EXCEPT ![c].pooled_connections = Append(@, got.item)]
    /\ UNCHANGED <<_active_connections, connections, _total_created, _total_reused, clock,
                   held, last_op, _lock, returned, cacheVars, fileVars, registryVars,
                   resolver, status, limiterVars>>

CleanupDrain(c) == frame[c].pc = "drain" /\ Drained(c, get_nowait(_pool))

\* the put-back loop of a sweep whose lock is still held when it ends
CleanupPutBack_keep_lock(c) ==
    /\ frame[c].pc = "put_back"
    /\ IF frame[c].pooled_connections = << >>
       THEN /\ Jump(c, "take")
            /\ UNCHANGED _pool
       ELSE /\ _pool' = put_nowait(_pool, Head(frame[c].pooled_connections)).queue
            /\ frame' = [frame EXCEPT ![c].pooled_connections = Tail(@)]
    /\ UNCHANGED <<_active_connections, connections, _total_created, _total_reused, clock,
                   held, last_op, _lock, returned, cacheVars, fileVars, registryVars,
                   resolver, status, limiterVars>>

\* one turn of "for conn in pooled_connections: self._pool.put_nowait(conn)",
\* and the end of the with block
CleanupPutBack(c) ==
    /\ frame[c].pc = "put_back"
    /\ IF frame[c].pooled_connections = << >>
       THEN /\ _lock' = 0
            /\ Jump(c, "take")
            /\ UNCHANGED _pool
       ELSE /\ _pool' = put_nowait(_pool, Head(frame[c].pooled_connections)).queue
            /\ frame' = [frame EXCEPT ![c].pooled_connections = Tail(@)]
            /\ UNCHANGED _lock
    /\ UNCHANGED <<_active_connections, connections, _total_created, _total_reused, clock,
                   held, last_op, returned, cacheVars, fileVars, registryVars, resolver, status, limiterVars>>

\* connection = self._pool.get_nowait(); mark_used(); in_use = True
Taken(c, got) ==
    /\ _pool' = got.queue
    /\ IF got.empty
       THEN Jump(c, "authenticate") /\ UNCHANGED connections
       ELSE /\ connections' = [connections EXCEPT ![got.item].last_used = clock,
                                                  ![got.item].in_use = TRUE]
            /\ frame' = [frame EXCEPT ![c].pc = "track_reused", ![c].connection = got.item]
    /\ UNCHANGED <<_active_connections, _total_created, _total_reused, clock, held, last_op,
                   _lock, returned, cacheVars, fileVars, registryVars, resolver, status, limiterVars>>

Take(c) == frame[c].pc = "take" /\ Taken(c, TakeFromPool(_pool))

\* with self._lock: self._active_connections[connection.connection_id] = connection
TrackReused(c) ==
    /\ frame[c].pc = "track_reused"
    /\ _lock = 0
    /\ _active_connections' = _active_connections \cup {frame[c].connection}
    /\ Jump(c, "read_reused")
    /\ UNCHANGED <<_pool, connections, _total_created, _total_reused, clock, held, last_op,
                   _lock, returned, cacheVars, fileVars, registryVars, resolver, status, limiterVars>>

\* self._total_reused += 1, the read
ReadReused(c) ==
    /\ frame[c].pc = "read_reused"
    /\ frame' = [frame EXCEPT ![c].pc = "write_reused", ![c].seen = _total_reused]
    /\ UNCHANGED <<poolVars, _lock, returned, cacheVars, fileVars, registryVars, resolver, status, limiterVars>>

\* self._total_reused += 1, the write; return connection
WriteReused(c) ==
    /\ frame[c].pc = "write_reused"
    /\ _total_reused' = frame[c].seen + 1
    /\ held' = [held EXCEPT ![c] = [connection |-> frame[c].connection,
                                    call |-> "get_connection"]]
    /\ returned' = [returned EXCEPT !.reused = @ + 1]
    /\ frame' = [frame EXCEPT ![c] = NoFrame]
    /\ UNCHANGED <<_pool, _active_connections, connections, _total_created, clock, last_op,
                   _lock, cacheVars, fileVars, registryVars, resolver, status, limiterVars>>

\* _create_connection up to the OdooConnection it builds; a falsy uid raises
Authenticate(c) ==
    /\ frame[c].pc = "authenticate"
    /\ \E valid_credentials \in BOOLEAN :
          IF valid_credentials
          THEN /\ connections' = Append(connections, [created_at |-> clock,
                                                      last_used |-> clock, in_use |-> FALSE])
               /\ frame' = [frame EXCEPT ![c].pc = "read_created",
                                         ![c].connection = Len(connections) + 1]
          ELSE /\ frame' = [frame EXCEPT ![c] = NoFrame]
               /\ UNCHANGED connections
    /\ UNCHANGED <<_pool, _active_connections, _total_created, _total_reused, clock, held,
                   last_op, _lock, returned, cacheVars, fileVars, registryVars, resolver, status, limiterVars>>

\* self._total_created += 1, the read
ReadCreated(c) ==
    /\ frame[c].pc = "read_created"
    /\ frame' = [frame EXCEPT ![c].pc = "write_created", ![c].seen = _total_created]
    /\ UNCHANGED <<poolVars, _lock, returned, cacheVars, fileVars, registryVars, resolver, status, limiterVars>>

\* self._total_created += 1, the write; back in get_connection, in_use = True
WriteCreated(c) ==
    /\ frame[c].pc = "write_created"
    /\ _total_created' = frame[c].seen + 1
    /\ connections' = [connections EXCEPT ![frame[c].connection].in_use = TRUE]
    /\ Jump(c, "track_created")
    /\ UNCHANGED <<_pool, _active_connections, _total_reused, clock, held, last_op, _lock,
                   returned, cacheVars, fileVars, registryVars, resolver, status, limiterVars>>

\* with self._lock: the active table; return connection
TrackCreated(c) ==
    /\ frame[c].pc = "track_created"
    /\ _lock = 0
    /\ _active_connections' = _active_connections \cup {frame[c].connection}
    /\ held' = [held EXCEPT ![c] = [connection |-> frame[c].connection,
                                    call |-> "get_connection"]]
    /\ returned' = [returned EXCEPT !.created = @ + 1]
    /\ frame' = [frame EXCEPT ![c] = NoFrame]
    /\ UNCHANGED <<_pool, connections, _total_created, _total_reused, clock, last_op, _lock,
                   cacheVars, fileVars, registryVars, resolver, status, limiterVars>>

\* a thread calls release_connection with the connection it holds:
\* connection.in_use = False; connection.mark_used()
CallRelease(c) ==
    /\ frame[c].pc = "idle"
    /\ held[c] # NoHold
    /\ connections' = [connections EXCEPT ![held[c].connection].in_use = FALSE,
                                          ![held[c].connection].last_used = clock]
    /\ frame' = [frame EXCEPT ![c].pc = "untrack", ![c].connection = held[c].connection]
    /\ held' = [held EXCEPT ![c] = NoHold]
    /\ UNCHANGED <<_pool, _active_connections, _total_created, _total_reused, clock, last_op,
                   _lock, returned, cacheVars, fileVars, registryVars, resolver, status, limiterVars>>

\* with self._lock: del self._active_connections[connection.connection_id]
Untrack(c) ==
    /\ frame[c].pc = "untrack"
    /\ _lock = 0
    /\ _active_connections' = _active_connections \ {frame[c].connection}
    /\ Jump(c, "put")
    /\ UNCHANGED <<_pool, connections, _total_created, _total_reused, clock, held, last_op,
                   _lock, returned, cacheVars, fileVars, registryVars, resolver, status, limiterVars>>

\* the test on the two limits and self._pool.put_nowait(connection)
PutBack(c) ==
    /\ frame[c].pc = "put"
    /\ _pool' = IF Stale(connections[frame[c].connection]) THEN _pool
                ELSE put_nowait(_pool, frame[c].connection).queue
    /\ frame' = [frame EXCEPT ![c] = NoFrame]
    /\ UNCHANGED <<_active_connections, connections, _total_created, _total_reused, clock,
                   held, last_op, _lock, returned, cacheVars, fileVars, registryVars,
                   resolver, status, limiterVars>>

ThreadStep(c) ==
    \/ CallGetConnection(c)
    \/ CleanupActive(c)
    \/ CleanupDrain(c)
    \/ CleanupPutBack(c)
    \/ Take(c)
    \/ TrackReused(c)
    \/ ReadReused(c)
    \/ WriteReused(c)
    \/ Authenticate(c)
    \/ ReadCreated(c)
    \/ WriteCreated(c)
    \/ TrackCreated(c)
    \/ CallRelease(c)
    \/ Untrack(c)
    \/ PutBack(c)

InitThreads == InitFiles

NextThreads == (\E c \in Callers : ThreadStep(c)) \/ TickClock

SpecThreads == InitThreads /\ [][NextThreads]_vars

-----------------------------------------------------------------------------
(* get_connection_pool and close_all_pools, statement by statement.  A pool *)
(* is named by its rank of construction.                                    *)

\* Pools constructed are explored up to this bound.
MaxPools == 3

\* threading.Lock.acquire that never waits
PoolLockFree_always == TRUE

\* with _pool_lock: the lock can be taken
PoolLockFree == _pool_lock = 0

\* a thread calls get_connection_pool(odoo_url, db, username, password)
CallGetConnectionPool(c) ==
    /\ factory[c].pc = "idle"
    /\ \E pool_key \in PoolKeys : \E password \in Passwords :
          factory' = [factory EXCEPT
                         ![c] = [pc |-> "lock", pool_key |-> pool_key,
                                 password |-> password, pool |-> 0]]
    /\ UNCHANGED <<_connection_pools, _pool_lock, pools, cacheVars, fileVars, poolVars,
                   threadVars, resolver, status, limiterVars>>

\* with _pool_lock:
EnterPoolLock(c) ==
    /\ factory[c].pc = "lock"
    /\ PoolLockFree
    /\ _pool_lock' = c
    /\ factory' = [factory EXCEPT ![c].pc = "check"]
    /\ UNCHANGED <<_connection_pools, pools, cacheVars, fileVars, poolVars, threadVars,
                   resolver, status, limiterVars>>

\* if pool_key not in _connection_pools:
CheckPoolKey(c) ==
    /\ factory[c].pc = "check"
    /\ factory' = [factory EXCEPT
                      ![c].pc = IF _connection_pools[factory[c].pool_key] = 0
                                THEN "construct" ELSE "return"]
    /\ UNCHANGED <<_connection_pools, _pool_lock, pools, cacheVars, fileVars, poolVars,
                   threadVars, resolver, status, limiterVars>>

\* _connection_pools[pool_key] = OdooConnectionPool(...)
ConstructPool(c) ==
    /\ factory[c].pc = "construct"
    /\ Len(pools) < MaxPools
    /\ pools' = Append(pools, [pool_key |-> factory[c].pool_key,
                               password |-> factory[c].password, closed |-> FALSE])
    /\ _connection_pools' = [_connection_pools EXCEPT
                                ![factory[c].pool_key] = Len(pools) + 1]
    /\ factory' = [factory EXCEPT ![c].pc = "return"]
    /\ UNCHANGED <<_pool_lock, cacheVars, fileVars, poolVars, threadVars, resolver, status, limiterVars>>

\* return _connection_pools[pool_key], leaving the with block
ReturnPool(c) ==
    /\ factory[c].pc = "return"
    /\ factory' = [factory EXCEPT ![c].pc = "idle",
                                  ![c].pool = _connection_pools[factory[c].pool_key]]
    /\ _pool_lock' = 0
    /\ UNCHANGED <<_connection_pools, pools, cacheVars, fileVars, poolVars, threadVars,
                   resolver, status, limiterVars>>

\* close_all_pools: under the lock, close every pool and clear the dictionary
CloseAllPools(c) ==
    /\ factory[c].pc = "idle"
    /\ PoolLockFree
    /\ \E pool_key \in PoolKeys : _connection_pools[pool_key] # 0
    /\ pools' = [i \in DOMAIN pools |->
                    IF \E pool_key \in PoolKeys : _connection_pools[pool_key] = i
                    THEN [pools[i] EXCEPT !.closed = TRUE] ELSE pools[i]]
    /\ _connection_pools' = [pool_key \in PoolKeys |-> 0]
    /\ UNCHANGED <<_pool_lock, factory, cacheVars, fileVars, poolVars, threadVars, resolver, status, limiterVars>>

FactoryStep(c) ==
    \/ CallGetConnectionPool(c)
    \/ EnterPoolLock(c)
    \/ CheckPoolKey(c)
    \/ ConstructPool(c)
    \/ ReturnPool(c)
    \/ CloseAllPools(c)

InitFactory == InitFiles

NextFactory == \E c \in Callers : FactoryStep(c)

SpecFactory == InitFactory /\ [][NextFactory]_vars

-----------------------------------------------------------------------------
(* One run of the attribute resolver and of the enrichment on the tables a  *)
(* reload has read.  The catalogue is the scenario with a second attribute  *)
(* on template 1; what varies is listed in Variants.                        *)

\* The attribute values the upstream knows.
KnownBaseValues == {1, 2, 3}

\* The attribute-line records of template 1: none, the two values of the
\* first attribute, its first value only.
LineVariants ==
    { << >>,
      << [id |-> 1, product_tmpl_id |-> 1, attribute_id |-> 1, value_ids |-> <<1, 2>>] >>,
      << [id |-> 1, product_tmpl_id |-> 1, attribute_id |-> 1, value_ids |-> <<1>>] >> }

\* The packaging reference of template attribute value 12: none, a packaging
\* the upstream does not have ("unknown"), a packaging without product
\* ("unlinked"), a packaging of a product the upstream does not have
\* ("orphan"), a packaging of the drink ("linked").
PackagingVariants == {"none", "unknown", "unlinked", "orphan", "linked"}

Variants ==
    [ dt    : {"radio", "check_box", "select"},  \* display type of attribute 1
      dt2   : {"radio", "check_box"},            \* display type of attribute 2
      e1    : {0, 1000},                         \* price_extra of value 11
      e2    : {500, 1500},                       \* price_extra of value 12
      e3    : {0, 700},                          \* price_extra of value 13
      base1 : {1, 7},                            \* base value of value 11
      base2 : {2, 7, 0},                         \* base value of value 12
      t3    : {1, 2},                            \* template of value 13
      pk    : PackagingVariants,
      lines : LineVariants ]

\* The upstream tables of variant v.
VariantOf(v) ==
    [ name                      |-> v,
      categories                |-> UpCategories(TRUE),
      products                  |-> UpProducts(TRUE),
      templates                 |-> UpTemplates,
      attributes                |->
          << [id |-> 1, name |-> "Size", create_variant |-> "no_variant",
              display_type |-> v.dt],
             [id |-> 2, name |-> "Topping", create_variant |-> "no_variant",
              display_type |-> v.dt2] >>,
      attribute_values          |->
          << [id |-> 1, name |-> "S", attribute_id |-> 1],
             [id |-> 2, name |-> "L", attribute_id |-> 1],
             [id |-> 3, name |-> "Egg", attribute_id |-> 2] >>,
      template_lines            |-> v.lines,
      template_attribute_values |->
          << [id |-> 11, name |-> "S", price_extra |-> v.e1, product_tmpl_id |-> 1,
              attribute_id |-> 1, product_attribute_value_id |-> v.base1,
              product_packaging_id |-> 0],
             [id |-> 12, name |-> "L", price_extra |-> v.e2, product_tmpl_id |-> 1,
              attribute_id |-> 1, product_attribute_value_id |-> v.base2,
              product_packaging_id |-> IF v.pk = "none" THEN 0
                                       ELSE IF v.pk = "unknown" THEN 6 ELSE 5],
             [id |-> 13, name |-> "Egg", price_extra |-> v.e3, product_tmpl_id |-> v.t3,
              attribute_id |-> 2, product_attribute_value_id |-> 3,
              product_packaging_id |-> 0] >>,
      packagings                |->
          << [id |-> 5, product_id |-> IF v.pk = "linked" THEN 9
                                       ELSE IF v.pk = "orphan" THEN 8 ELSE 0] >> ]

\* _process_attributes and the two product enrichments on the tables read
\* from variant v.
Run(v) == EnrichedLocals(ResolvedLocals(FetchedLocals(VariantOf(v))))

Ran(v, l) ==
    [input |-> v, done |-> TRUE,
     product_attributes |-> l.attributes_data.product_attributes,
     products |-> l.products]

Resolve ==
    /\ ~ resolver.done
    /\ resolver' = Ran(resolver.input, Run(resolver.input))
    /\ UNCHANGED <<cacheVars, fileVars, poolVars, threadVars, registryVars, status,
                 limiterVars>>

InitResolver ==
    /\ is_cloud_run = FALSE
    /\ firestore_service = FALSE
    /\ local = EmptyLocal
    /\ images = NoImages
    /\ remote = EmptyRemote
    /\ remoteUp = TRUE
    /\ now = 0
    /\ result = NoResult
    /\ FilesInit
    /\ PoolInit
    /\ ThreadsInit
    /\ RegistryInit
    /\ status = NoStatus
    /\ LimiterInit
    /\ resolver \in {[NoRun EXCEPT !.input = v] : v \in Variants}

NextResolver == Resolve

SpecResolver == InitResolver /\ [][NextResolver]_vars

-----------------------------------------------------------------------------
(* RateLimitingMiddleware.  time.time() is the clock of the pool section;   *)
(* several requests can arrive at one reading of it.  The middleware under  *)
(* check is built with max_requests = 2, as in its test, and a window of 2  *)
(* units of time.                                                           *)

max_requests == 2

window_seconds == 2

\* the paths dispatch passes on without looking at the client
ExemptPaths == {"/health", "/docs", "/redoc", "/openapi.json"}

\* _cleanup_old_entries(current_time)
_cleanup_old_entries(counts, current_time) ==
    [ip \in DOMAIN counts |->
        IF SelectSeq(counts[ip].requests,
                     LAMBDA req_time : req_time > current_time - window_seconds) = << >>
        THEN NoEntry
        ELSE [counts[ip] EXCEPT !.requests =
                SelectSeq(@, LAMBDA req_time : req_time > current_time - window_seconds)]]

\* "if client_ip not in self.request_counts": the entry of client_ip
EntryOf(counts, client_ip, current_time) ==
    IF counts[client_ip].present THEN counts[client_ip]
    ELSE [present |-> TRUE, requests |-> << >>, first_request |-> current_time]

\* the test on len(recent_requests) that admits one request more than max_requests
Checked_off_by_one(counts, client_ip, ip_data, current_time) ==
    IF Len(SelectSeq(ip_data.requests,
                     LAMBDA req_time : req_time > current_time - window_seconds))
          > max_requests
    THEN [limited |-> TRUE, request_counts |-> [counts EXCEPT ![client_ip] = ip_data]]
    ELSE [limited |-> FALSE,
          request_counts |-> [counts EXCEPT ![client_ip] =
                                 [ip_data EXCEPT !.requests = Append(@, current_time)]]]

\* _is_rate_limited from "Count requests in current window" on
Checked(counts, client_ip, ip_data, current_time) ==
    IF Len(SelectSeq(ip_data.requests,
                     LAMBDA req_time : req_time > current_time - window_seconds))
          >= max_requests
    THEN [limited |-> TRUE, request_counts |-> [counts EXCEPT ![client_ip] = ip_data]]
    ELSE [limited |-> FALSE,
          request_counts |-> [counts EXCEPT ![client_ip] =
                                 [ip_data EXCEPT !.requests = Append(@, current_time)]]]

CheckedAfterCleanup(counts, client_ip, current_time) ==
    Checked(counts, client_ip, EntryOf(counts, client_ip, current_time), current_time)

\* _is_rate_limited(client_ip): what it returns and what it leaves in request_counts
_is_rate_limited(client_ip) ==
    CheckedAfterCleanup(_cleanup_old_entries(request_counts, clock), client_ip, clock)

\* dispatch of a request to a path that is not exempt
Limited(path, client_ip, checked) ==
    /\ request_counts' = checked.request_counts
    /\ admitted' = IF checked.limited THEN admitted
                   ELSE [admitted EXCEPT ![client_ip] = Append(@, clock)]
    /\ response' = [path |-> path, client_ip |-> client_ip,
                    status_code |-> IF checked.limited THEN 429 ELSE 200]

\* dispatch(request, call_next); call_next answers 200
Dispatch ==
    /\ \E path \in Paths : \E client_ip \in Clients :
          IF path \in ExemptPaths
          THEN /\ response' = [path |-> path, client_ip |-> client_ip, status_code |-> 200]
               /\ UNCHANGED <<request_counts, admitted>>
          ELSE Limited(path, client_ip, _is_rate_limited(client_ip))
    /\ UNCHANGED <<cacheVars, fileVars, poolVars, threadVars, registryVars, resolver, status>>

InitLimiter == InitFiles

NextLimiter == Dispatch \/ TickClock

SpecLimiter == InitLimiter /\ [][NextLimiter]_vars

-----------------------------------------------------------------------------
(* Properties *)

\* the dataset a result names
DatasetOf(name) == Upstream(name[1], name[2], name[3])

CategoryIds == {cat.id : cat \in Range(UpCategories(TRUE))}

ProductIds == {prod.id : prod \in Range(UpProducts(TRUE))}

FetchErrors == {"ValueError", "Fault"}

\* C1: a reload in which authentication or an upstream read fails raises to
\* its caller and leaves every file of the local cache and every document of
\* the remote store, metadata included, exactly as they were.
C1_FailedReloadKeepsCache ==
    [][ \A d \in Datasets : \A fail \in FailPoints \cap Calls[d] :
            reload_cache(d, fail) =>
                /\ result'.outcome = "raised"
                /\ result'.error \in FetchErrors
                /\ local' = local
                /\ remote' = remote ]_vars

\* C1 witness: a reload has just failed on authentication or on a read while
\* both stores hold the snapshot and metadata of an earlier reload.
C1_Witness ==
    /\ result.outcome = "raised"
    /\ result.error \in FetchErrors
    /\ local.metadata.exists /\ local.products.data # << >>
    /\ remote.metadata.exists /\ remote.products.data # << >>

\* C2 (as claimed): a reload of the scenario dataset (3 categories, 5 POS
\* products, products 1 and 2 on one template with a radio attribute of two
\* values with deltas 0 and 500, no packaging reference) in which no upstream
\* call fails returns, and the file cache then holds 3 categories and 5
\* products, the two templated products with one attribute line of 2 values
\* and price_range.max = list_price + 500.
C2_ScenarioReloadCompletes ==
    (/\ result.op = "reload_cache"
     /\ result.dataset = Scenario.name
     /\ result.error \notin FetchErrors)
    => /\ result.outcome = "returned"
       /\ Len(odoo_get_categories) = Len(Scenario.categories)
       /\ Len(odoo_get_products) = Len(odoo_products(Scenario))
       /\ \A i \in DOMAIN odoo_get_products :
             LET p == odoo_get_products[i] IN
             p.template_id = UpTemplateLines[1].product_tmpl_id
             => /\ Len(p.attribute_lines) = 1
                /\ Len(p.attribute_lines[1].values) = 2
                /\ p.price_range.max = p.list_price + 500

\* C3 (as claimed): once a reload has returned, and until the next reload or
\* the TTL, every collection accessor returns the collection of the snapshot
\* that reload built, in either environment and whatever happened to the
\* remote write.
C3_ReadersSeeLastReload ==
    (/\ result.outcome = "returned"
     /\ now - local.metadata.data.last_updated < CacheTtlHours)
    => \E snap \in {Snapshots[DatasetOf(result.dataset)]} :
          /\ get_categories = snap.categories
          /\ get_products = snap.products
          /\ get_attributes = snap.attributes
          /\ get_attribute_values = snap.attribute_values
          /\ get_product_attributes = snap.product_attributes

\* C4: when the Firestore write of a reload fails, the reload still returns,
\* its value is the metadata of the file cache, and the file cache holds the
\* whole snapshot built from the dataset.
C4_RemoteWriteFailureDegrades ==
    result.remote_write = "failed"
    => /\ result.outcome = "returned"
       /\ result.value = local.metadata.data
       /\ local = WrittenCache(Snapshots[DatasetOf(result.dataset)], result.value)

\* C4 witness: a reload returned although its Firestore write failed.
C4_Witness ==
    /\ result.remote_write = "failed"
    /\ result.outcome = "returned"
    /\ odoo_get_products # << >>

\* C5: on Cloud Run with Firestore initialised, whenever the Firestore read of
\* the products is empty (absent, expired or failed) and the file cache has
\* products, get_products returns the products of the file cache.
C5_ProductsFallBackToLocal ==
    (UseFirestore /\ firestore_get_products = << >> /\ odoo_get_products # << >>)
    => get_products = odoo_get_products

\* C5 witness: Cloud Run, the Firestore products document exists but has
\* expired, the file cache has products.
C5_Witness ==
    /\ is_cloud_run /\ firestore_service /\ remoteUp
    /\ remote.products.exists /\ remote.products.data # << >>
    /\ firestore_get_products = << >>
    /\ odoo_get_products # << >>

\* C6 (as claimed): on Cloud Run with Firestore reachable but its products
\* expired or absent and the file cache populated, get_products_by_category
\* and get_product_attributes_by_id return what the file cache returns, and
\* get_products_by_category(c) is get_products filtered on category c.
C6_EveryAccessorFallsBack ==
    (/\ UseFirestore /\ remoteUp
     /\ ~ Readable(remote.products) /\ ~ Readable(remote.attributes)
     /\ local.products.exists /\ local.product_attributes.exists)
    => /\ \A c \in CategoryIds :
             /\ get_products_by_category(c) = odoo_get_products_by_category(c)
             /\ get_products_by_category(c)
                  = SelectSeq(get_products, LAMBDA prod : prod.pos_categ_id = c)
       /\ \A id \in ProductIds :
             get_product_attributes_by_id(id) = odoo_get_product_attributes_by_id(id)

\* C7: when the service does not run on Cloud Run, or Firestore failed to
\* initialise, every read accessor returns what the file cache returns,
\* whatever the Firestore documents hold.
C7_LocalEnvironmentReadsLocal ==
    (~ is_cloud_run \/ ~ firestore_service)
    => /\ get_categories = odoo_get_categories
       /\ get_products = odoo_get_products
       /\ get_attributes = odoo_get_attributes
       /\ get_attribute_values = odoo_get_attribute_values
       /\ get_product_attributes = odoo_get_product_attributes
       /\ \A c \in CategoryIds :
             get_products_by_category(c) = odoo_get_products_by_category(c)
       /\ \A id \in ProductIds :
             /\ get_product_attributes_by_id(id) = odoo_get_product_attributes_by_id(id)
             /\ get_product_by_id(id) = odoo_get_product_by_id(id)

\* C7 witness: local environment, Firestore initialised and readable, and its
\* documents hold other categories and products than the file cache.
C7_Witness ==
    /\ ~ is_cloud_run /\ firestore_service
    /\ Readable(remote.products) /\ Readable(remote.categories)
    /\ local.products.exists
    /\ remote.products.data # local.products.data
    /\ remote.categories.data # local.categories.data
    /\ remote.categories.data # << >>

\* C8 (as claimed): is_cache_empty is true exactly when get_categories or
\* get_products of the same service, fallback included, is empty.
C8_EmptyIffReadsEmpty ==
    is_cache_empty <=> (get_categories = << >> \/ get_products = << >>)

\* C9: while Firestore is reachable, a read of a written collection made
\* less than the TTL after the write returns the written data, and a read
\* made more than the TTL after the write returns the empty collection.
C9_TtlOnRead ==
    remoteUp =>
      /\ remote.categories.exists =>
           /\ now - remote.categories.updated < CacheTtlHours
                => firestore_get_categories = remote.categories.data
           /\ now - remote.categories.updated > CacheTtlHours
                => firestore_get_categories = << >>
      /\ remote.products.exists =>
           /\ now - remote.products.updated < CacheTtlHours
                => firestore_get_products = remote.products.data
           /\ now - remote.products.updated > CacheTtlHours
                => firestore_get_products = << >>
      /\ remote.attributes.exists =>
           /\ now - remote.attributes.updated < CacheTtlHours
                => /\ firestore_get_attributes = remote.attributes.attributes
                   /\ firestore_get_attribute_values = remote.attributes.attribute_values
                   /\ firestore_get_product_attributes
                        = remote.attributes.product_attributes
           /\ now - remote.attributes.updated > CacheTtlHours
                => /\ firestore_get_attributes = << >>
                   /\ firestore_get_attribute_values = << >>
                   /\ DOMAIN firestore_get_product_attributes = {}

\* C9 witness: Firestore is reachable and holds non-empty collections
\* written more than the TTL ago.
C9_Witness ==
    /\ remoteUp
    /\ remote.products.exists /\ remote.products.data # << >>
    /\ remote.categories.exists /\ remote.categories.data # << >>
    /\ now - remote.products.updated > CacheTtlHours

\* C10 (as claimed): a reachable Firestore returns the empty collection for a
\* stored non-empty collection exactly when now - updated > ttl; at an age of
\* exactly the TTL the stored data is still returned.
C10_StaleOnlyBeyondTtl ==
    (remoteUp /\ remote.products.exists /\ remote.products.data # << >>)
    => (firestore_get_products = << >>
          <=> now - remote.products.updated > CacheTtlHours)

\* C11 (as claimed): a get of one collection made while a reload is saving
\* returns without raising, and what it returns is the whole content of that
\* collection either as it was before the reload or as the reload leaves it.
C11_ConcurrentGetSeesWholeCollection ==
    read.name # ""
    => /\ ~ read.raised
       /\ read.data = read.before \/ read.data = read.after

\* C12 (as claimed): no read accessor of the orchestrator raises, and while
\* Firestore reads fail on Cloud Run the accessors return what the file cache
\* returns.
C12_NoGetRaises ==
    /\ \A id \in ProductIds : ~ get_product_by_id(id).raised
    /\ (UseFirestore /\ ~ remoteUp)
       => /\ get_categories = odoo_get_categories
          /\ get_products = odoo_get_products
          /\ get_attributes = odoo_get_attributes
          /\ get_attribute_values = odoo_get_attribute_values
          /\ get_product_attributes = odoo_get_product_attributes

Outstanding == {c \in Callers : held[c] # NoHold}

\* A step in which caller c gives back connection id, through
\* release_connection or through the finally block of execute_kw
Gives(c, id) == held[c].connection = id /\ id # 0 /\ held'[c] = NoHold

\* C14: with valid credentials and no limit exceeded, get_connection,
\* release_connection, get_connection hands out the same connection the second
\* time, with _total_reused >= 1 and _total_created still 1.
C14_ReleasedConnectionIsReused ==
    [][(/\ last_op.op = "release_connection"
        /\ _total_created = 1
        /\ _total_reused = 0
        /\ ~ Stale(connections[last_op.connection])
        /\ last_op'.op = "get_connection"
        /\ last_op'.valid_credentials)
       => /\ last_op'.outcome = "reused"
          /\ last_op'.connection = last_op.connection
          /\ \E c \in Callers : held[c] = NoHold /\ held'[c].connection = last_op.connection
          /\ _total_reused' >= 1
          /\ _total_created' = 1]_vars

C14_Witness ==
    /\ last_op.op = "get_connection"
    /\ last_op.outcome = "reused"
    /\ last_op.valid_credentials
    /\ \E c \in Callers : held[c].connection = 1
    /\ _total_created = 1
    /\ _total_reused = 1

\* C15: the idle queue never holds more than max_connections connections,
\* whatever the interleaving of get_connection, release_connection, the sweep
\* and close_all; a release into a full queue discards the connection, leaves
\* the queue as it was and returns.
C15_PoolIsBounded ==
    /\ [](Len(_pool) <= max_connections)
    /\ [][\A c \in Callers :
            (Gives(c, held[c].connection) /\ Len(_pool) = max_connections)
            => /\ _pool' = _pool
               /\ held[c].connection \notin _active_connections'
               /\ last_op'.op \in {"release_connection", "execute_kw"}]_vars

C15_Witness ==
    /\ last_op.op = "release_connection"
    /\ last_op.outcome = "discarded"
    /\ ~ Stale(connections[last_op.connection])
    /\ Len(_pool) = max_connections
    /\ last_op.connection \notin Range(_pool)

\* C16: release_connection never puts into the idle queue a connection whose
\* age, time.time() - created_at, exceeds max_connection_age.
C16_ExpiredConnectionIsNotPooled ==
    [][\A c \in Callers :
         (/\ Gives(c, held[c].connection)
          /\ clock - connections[held[c].connection].created_at > max_connection_age)
         => held[c].connection \notin Range(_pool')]_vars

C16_Witness ==
    /\ last_op.op = "release_connection"
    /\ last_op.outcome = "discarded"
    /\ clock - connections[last_op.connection].created_at > max_connection_age
    /\ Len(_pool) < max_connections

\* C17: when execute_kw exits, having returned or raised, the connection it
\* acquired is released: out of the active table and no longer in use.
C17_ExecuteKwReleases ==
    [][\A c \in Callers :
         (held[c].call = "execute_kw" /\ held'[c] = NoHold)
         => /\ last_op'.op = "execute_kw"
            /\ last_op'.outcome \in {"returned", "raised"}
            /\ held[c].connection \notin _active_connections'
            /\ ~ connections'[held[c].connection].in_use]_vars

C17_Witness ==
    /\ last_op.op = "execute_kw"
    /\ last_op.outcome = "raised"
    /\ last_op.error = "Fault"
    /\ last_op.connection # 0
    /\ last_op.connection \notin _active_connections
    /\ ~ connections[last_op.connection].in_use

\* C18: get_connection does not wait for capacity: with valid credentials it
\* hands out a connection, reused or new, however many are checked out.
C18_GetConnectionNeverWaits ==
    (last_op.op \in {"get_connection", "execute_kw"} /\ last_op.valid_credentials
        /\ last_op.outcome \notin {"returned", "raised"})
    => /\ last_op.outcome \in {"created", "reused"}
       /\ last_op.connection # 0

C18_Witness ==
    /\ last_op.op = "get_connection"
    /\ last_op.outcome = "created"
    /\ Cardinality(Outstanding) > max_connections
    /\ Cardinality(_active_connections) > max_connections

\* C19: a get_connection whose new connection is refused by authenticate
\* raises, adds no connection to the idle queue or the active table, leaves
\* both counters alone and has called authenticate once.
C19_RejectedCredentialsRaise ==
    [][(/\ last_op' # last_op
        /\ last_op'.op \in {"get_connection", "execute_kw"}
        /\ ~ last_op'.valid_credentials
        /\ _cleanup_expired_connections.pool = << >>)
       => /\ last_op'.outcome = "raised"
          /\ last_op'.error = "ValueError"
          /\ last_op'.authenticate_calls = 1
          /\ Range(_pool') \subseteq Range(_pool)
          /\ _active_connections' \subseteq _active_connections
          /\ connections' = connections
          /\ held' = held
          /\ _total_created' = _total_created
          /\ _total_reused' = _total_reused]_vars

C19_Witness ==
    /\ last_op.op = "get_connection"
    /\ last_op.outcome = "raised"
    /\ last_op.error = "ValueError"
    /\ ~ last_op.valid_credentials
    /\ _total_created >= 1
    /\ _active_connections # {}

\* C20: right after close_all the idle queue and the active table are empty,
\* the two counters are what they were, and the connections checked out stay
\* with their holders, still marked in use.
C20_CloseAllDropsReferences ==
    [][last_op'.op = "close_all"
       => /\ _pool' = << >>
          /\ _active_connections' = {}
          /\ _total_created' = _total_created
          /\ _total_reused' = _total_reused
          /\ held' = held
          /\ connections' = connections]_vars

C20_Witness ==
    /\ last_op.op = "close_all"
    /\ _pool = << >>
    /\ _active_connections = {}
    /\ \E c \in Callers : held[c] # NoHold /\ connections[held[c].connection].in_use
    /\ \E id \in DOMAIN connections :
          ~ connections[id].in_use /\ connections[id].last_used = clock
    /\ _total_reused >= 1

C22_CountersCountAcquires ==
    (\A c \in Callers : frame[c].pc = "idle")
    => /\ _total_created = Len(connections)
       /\ _total_reused = returned.reused
       /\ _total_created + _total_reused = returned.created + returned.reused

\* C23: get_pool_stats reports as active_connections the number of
\* connections handed out and not yet released, and as pool_size the number
\* of idle connections; a get_connection that creates a connection raises
\* active_connections and total_created by 1; the release of a valid
\* connection into a queue with room lowers active_connections by 1 and
\* raises pool_size by 1.
C23_StatsCountOutstanding ==
    /\ [](/\ get_pool_stats.active_connections = Cardinality({c \in Callers : held[c] # NoHold})
          /\ get_pool_stats.pool_size = Len(_pool))
    /\ [][(last_op' # last_op /\ last_op'.outcome = "created")
          => /\ get_pool_stats.active_connections' = get_pool_stats.active_connections + 1
             /\ get_pool_stats.total_created' = get_pool_stats.total_created + 1]_vars
    /\ [][(last_op' # last_op /\ last_op'.outcome = "pooled")
          => /\ get_pool_stats.active_connections' = get_pool_stats.active_connections - 1
             /\ get_pool_stats.pool_size' = get_pool_stats.pool_size + 1]_vars

\* The pools no close_all_pools has dropped
Registered(pool_key) ==
    {i \in DOMAIN pools : pools[i].pool_key = pool_key /\ ~ pools[i].closed}

\* C24: get_connection_pool returns the same pool for every call with an
\* equal (odoo_url, db, username), and threads that make the first calls at
\* once construct at most one pool for a key.
C24_OnePoolPerKey ==
    /\ \A pool_key \in PoolKeys : Cardinality(Registered(pool_key)) <= 1
    /\ \A c \in Callers :
          (factory[c].pc = "idle" /\ factory[c].pool # 0 /\ ~ pools[factory[c].pool].closed)
          => /\ pools[factory[c].pool].pool_key = factory[c].pool_key
             /\ factory[c].pool = _connection_pools[factory[c].pool_key]
             /\ \A d \in Callers :
                   (factory[d].pool # 0 /\ ~ pools[factory[d].pool].closed
                       /\ factory[d].pool_key = factory[c].pool_key)
                   => factory[d].pool = factory[c].pool

C24_Witness ==
    /\ \A c \in Callers : factory[c].pc = "idle" /\ factory[c].pool = 1
    /\ factory[1].pool_key = factory[2].pool_key
    /\ factory[1].password # factory[2].password
    /\ Len(pools) = 1
    /\ ~ pools[1].closed

\* C25: test_connection leaves the cache files, the images and the Firestore
\* documents as they are and returns a status for Odoo, and for Firestore
\* when it is in use, whether or not either can be reached; it does not raise.
C25_TestConnectionOnlyReports ==
    [][(status' # status /\ status'.op = "test_connection")
       => /\ local' = local
          /\ images' = images
          /\ remote' = remote
          /\ ~ status'.raised
          /\ status'.odoo.status = IF status'.upstream = "down" THEN "error" ELSE "success"
          /\ UseFirestore =>
                status'.firestore.firestore_status
                    = IF remoteUp THEN "healthy" ELSE "unhealthy"]_vars

C25_Witness ==
    /\ status.op = "test_connection"
    /\ status.upstream = "down"
    /\ status.odoo.status = "error"
    /\ status.firestore.firestore_status = "unhealthy"
    /\ ~ status.raised
    /\ ~ remoteUp
    /\ local # EmptyLocal
    /\ remote # EmptyRemote

\* The environment detected at construction
DetectedEnvironment == IF is_cloud_run THEN "cloud_run" ELSE "local"

\* C26: get_cache_status and test_connection report the backend "firestore"
\* exactly when reads go to Firestore (on Cloud Run with Firestore
\* initialised), and report the environment detected at construction.
C26_StatusShowsBackend ==
    /\ get_cache_status.cache_backend = "firestore" <=> UseFirestore
    /\ get_cache_status.environment = DetectedEnvironment
    /\ \A upstream \in Upstreams :
          /\ test_connection(upstream).cache_backend = "firestore" <=> UseFirestore
          /\ test_connection(upstream).environment = DetectedEnvironment

\* The price deltas of the values variant v leaves on the first attribute of
\* template 1, and the extra a line of display type dt with these deltas adds
\* (the upstream spells the checkbox type "check_box").
KeptDeltas(v) ==
    (IF v.base1 \in KnownBaseValues THEN <<v.e1>> ELSE << >>)
    \o (IF v.base2 \in KnownBaseValues THEN <<v.e2>> ELSE << >>)

ExtraOf(dt, deltas) ==
    IF deltas = << >> THEN 0
    ELSE IF dt = "check_box" THEN SeqSum(deltas)
    ELSE CHOOSE m \in Range(deltas) : \A x \in Range(deltas) : x <= m

\* C27: price_range.min is the base price, and price_range.max is the base
\* price plus, summed over the attribute lines, the sum of the deltas of a
\* check_box line and the largest delta of a line of another display type;
\* deltas 1000 and 1500 on base 20000 give 22500 under check_box and 21500
\* under radio.
C27_PriceRange ==
    resolver.done
    => \A i \in DOMAIN resolver.products :
          /\ resolver.products[i].price_range.min = resolver.products[i].list_price
          /\ resolver.products[i].price_range.max =
                resolver.products[i].list_price
                + (IF resolver.products[i].template_id = 1
                   THEN ExtraOf(resolver.input.dt, KeptDeltas(resolver.input))
                   ELSE 0)
                + (IF resolver.products[i].template_id = resolver.input.t3
                   THEN ExtraOf(resolver.input.dt2, <<resolver.input.e3>>)
                   ELSE 0)
          /\ (/\ resolver.products[i].template_id = 1
              /\ KeptDeltas(resolver.input) = <<1000, 1500>>
              /\ resolver.input.e3 = 0)
             => /\ resolver.products[i].list_price = 20000
                /\ resolver.input.dt = "check_box"
                      => resolver.products[i].price_range.max = 22500
                /\ resolver.input.dt = "radio"
                      => resolver.products[i].price_range.max = 21500

C27_Witness ==
    /\ resolver.done
    /\ resolver.input.dt = "check_box"
    /\ resolver.input.dt2 = "check_box"
    /\ KeptDeltas(resolver.input) = <<1000, 1500>>
    /\ resolver.input.e3 = 700
    /\ resolver.products[1].price_range = [min |-> 20000, max |-> 23200]

\* C28: the attribute lines and price ranges of a run are those of every run
\* whose input differs only in the attribute-line records (their value_ids
\* included): the resolver groups the template attribute values and never
\* reads the attribute lines.
C28_LinesNotRead ==
    resolver.done
    => \A lines \in LineVariants :
          LET other == Run([resolver.input EXCEPT !.lines = lines])
          IN /\ other.attributes_data.product_attributes = resolver.product_attributes
             /\ other.products = resolver.products

\* The resolved lines of a product as <<attribute id, value ids>> pairs.
LinesOf(product) ==
    Map(LAMBDA attr_line : <<attr_line.attribute_id,
                             Map(LAMBDA val : val.id, attr_line.values)>>,
        product.attribute_lines)

C28_Witness ==
    /\ resolver.done
    /\ resolver.input.lines # << >>
    /\ resolver.input.lines[1].value_ids = <<1>>
    /\ LinesOf(resolver.products[1]) = << <<1, <<11, 12>> >>, <<2, <<13>> >> >>

\* The ids of the values variant v leaves on the first attribute of template 1.
KeptIds(v) ==
    (IF v.base1 \in KnownBaseValues THEN <<11>> ELSE << >>)
    \o (IF v.base2 \in KnownBaseValues THEN <<12>> ELSE << >>)

\* C29: a template attribute value whose base value is unknown is left out of
\* its line; the other values and lines are produced, a line left without a
\* value is omitted, and every product is still resolved.
C29_UnknownBaseExcluded ==
    resolver.done
    => /\ Map(LAMBDA p : p.id, resolver.products)
             = Map(LAMBDA p : p.id,
                   SelectSeq(UpProducts(TRUE), LAMBDA p : p.available_in_pos))
       /\ \A i \in DOMAIN resolver.products :
             LinesOf(resolver.products[i])
                = (IF /\ resolver.products[i].template_id = 1
                       /\ KeptIds(resolver.input) # << >>
                    THEN << <<1, KeptIds(resolver.input)>> >> ELSE << >>)
                  \o (IF resolver.products[i].template_id = resolver.input.t3
                      THEN << <<2, <<13>> >> >> ELSE << >>)

C29_Witness ==
    /\ resolver.done
    /\ resolver.input.base1 = 7
    /\ resolver.input.base2 = 7
    /\ LinesOf(resolver.products[1]) = << <<2, <<13>> >> >>
    /\ resolver.products[3].price_range.min = resolver.products[3].list_price

\* C30: a template attribute value whose packaging reference does not resolve
\* to a linked product (packaging unknown, packaging without a product, or
\* product unknown) is dropped from its line, and the remaining values are
\* still resolved.
C30_UnresolvedPackagingDropped ==
    (/\ resolver.done
     /\ resolver.input.pk \in {"unknown", "unlinked", "orphan"})
    => \A i \in DOMAIN resolver.products :
          resolver.products[i].template_id = 1
          => LinesOf(resolver.products[i])
               = (IF resolver.input.base1 \in KnownBaseValues
                  THEN << <<1, <<11>> >> >> ELSE << >>)
                 \o (IF resolver.input.t3 = 1 THEN << <<2, <<13>> >> >> ELSE << >>)

PastLimit(id) ==
    \/ clock - connections[id].created_at > max_connection_age
    \/ clock - connections[id].last_used > max_idle_time

Retained ==
    Range(_pool) \cup UNION {Range(frame[c].pooled_connections) : c \in Callers}

\* C33: under threads, a get_connection goes on to authenticate only when the
\* pool retains no idle connection within both limits; the moment looked at
\* is the one at which the call finds the queue empty.
C33_CreatesOnlyWithoutIdle ==
    [][ \A c \in Callers :
            (frame[c].pc = "take" /\ frame'[c].pc = "authenticate")
            => \A id \in Retained : PastLimit(id) ]_vars

\* C34: a thread that is authenticating, or that holds a connection and may
\* be inside an upstream call on it, does not hold self._lock; while one
\* thread authenticates, the locked block of a release_connection on another
\* thread can run.
C34_NoLockAcrossNetwork ==
    \A c \in Callers :
        /\ (frame[c].pc = "authenticate" \/ held[c] # NoHold) => _lock # c
        /\ \A d \in Callers \ {c} :
              (frame[c].pc = "authenticate" /\ frame[d].pc = "untrack")
              => ENABLED Untrack(d)

\* C34 witness: one thread is authenticating while the other is about to
\* enter the locked block of release_connection.
C34_Witness ==
    \E c \in Callers : \E d \in Callers \ {c} :
        /\ frame[c].pc = "authenticate"
        /\ frame[d].pc = "untrack"
        /\ _lock = 0

\* C35 (as claimed): in every reachable state, time passing between the calls
\* included, no connection in the queue is older than max_connection_age.
C35_NoPooledConnectionPastMaxAge ==
    \A id \in Range(_pool) : clock - connections[id].created_at <= max_connection_age

\* C35 (amended): no connection older than max_connection_age enters the
\* queue, and none is in the queue when get_connection returns or a sweep
\* ends; a connection that passes max_connection_age while queued stays in
\* the queue until then.
C35_NoneEntersOrSurvivesSweepPastMaxAge ==
    [][ /\ \A id \in Range(_pool') \ Range(_pool) :
              clock' - connections'[id].created_at <= max_connection_age
        /\ (/\ clock' = clock
            /\ last_op'.op \in {"get_connection", "execute_kw", "_cleanup_expired_connections"}
            /\ last_op'.outcome \in {"created", "reused", "none"}
               \/ last_op'.error = "ValueError")
           => \A id \in Range(_pool') :
                 clock' - connections'[id].created_at <= max_connection_age ]_vars

\* C35 witness: the first connection was queued within its age, passed
\* max_connection_age, and the get_connection that has just returned took it
\* out of the queue and created the second.
C35_Witness ==
    /\ last_op.op = "get_connection"
    /\ last_op.outcome = "created"
    /\ last_op.connection = 2
    /\ ~ connections[1].in_use
    /\ connections[1].last_used - connections[1].created_at <= max_connection_age
    /\ clock - connections[1].created_at > max_connection_age
    /\ connections[2].created_at = clock
    /\ _pool = << >>

\* C36: every value of every resolved line of a product is a template
\* attribute value of the product's template and of the line's attribute
\* whose base value is a known attribute value; products of one template
\* carry the same lines.
C36_LinesComeFromOwnTemplate ==
    resolver.done
    => /\ \A i \in DOMAIN resolver.products :
             \A k \in DOMAIN resolver.products[i].attribute_lines :
                \A val \in Range(resolver.products[i].attribute_lines[k].values) :
                   \E tav \in Range(VariantOf(resolver.input).template_attribute_values) :
                      /\ tav.id = val.id
                      /\ tav.product_tmpl_id = resolver.products[i].template_id
                      /\ tav.attribute_id
                            = resolver.products[i].attribute_lines[k].attribute_id
                      /\ tav.product_attribute_value_id \in KnownBaseValues
                      /\ tav.product_attribute_value_id = val.base_value_id
       /\ \A i, j \in DOMAIN resolver.products :
             resolver.products[i].template_id = resolver.products[j].template_id
             => resolver.products[i].attribute_lines = resolver.products[j].attribute_lines

\* C36 witness: the two products of template 1 carry the same line of two
\* values, and the product of template 2 the line of the value given to
\* template 2.
C36_Witness ==
    /\ resolver.done
    /\ resolver.input.t3 = 2
    /\ LinesOf(resolver.products[1]) = << <<1, <<11, 12>> >> >>
    /\ resolver.products[2].attribute_lines = resolver.products[1].attribute_lines
    /\ LinesOf(resolver.products[3]) = << <<2, <<13>> >> >>

\* The requests of client ip passed on with an arrival time in the window of
\* window_seconds that ends at time t (open at its start, as the code counts).
AdmittedIn(ip, t) ==
    {i \in DOMAIN admitted[ip] : /\ admitted[ip][i] > t - window_seconds
                                 /\ admitted[ip][i] <= t}

\* C37: per client IP no window of window_seconds holds more than
\* max_requests requests passed on; a request to a path that is not exempt
\* is answered 429 exactly when the window that ends at its arrival is full,
\* and is then not recorded; a request to an exempt path is passed on and
\* changes nothing of request_counts.
C37_RateLimit ==
    /\ [](\A ip \in Clients : \A t \in 0 .. MaxClock :
             Cardinality(AdmittedIn(ip, t)) <= max_requests)
    /\ [][ clock' = clock
           => /\ response'.path \in ExemptPaths
                 => /\ response'.status_code = 200
                    /\ request_counts' = request_counts
                    /\ admitted' = admitted
              /\ response'.path \notin ExemptPaths
                 => /\ response'.status_code = 429
                       <=> Cardinality(AdmittedIn(response'.client_ip, clock)) >= max_requests
                    /\ response'.status_code = 429
                       => /\ admitted' = admitted
                          /\ \A ip \in Clients :
                                Len(request_counts'[ip].requests)
                                   <= Len(request_counts[ip].requests)
                    /\ response'.status_code # 429
                       => /\ response'.status_code = 200
                          /\ admitted'[response'.client_ip]
                                = Append(admitted[response'.client_ip], clock) ]_vars

\* C37 witness: a client whose window is full has just been answered 429,
\* after an earlier window of its requests has passed.
C37_Witness ==
    /\ response.status_code = 429
    /\ Cardinality(AdmittedIn(response.client_ip, clock)) = max_requests
    /\ Len(admitted[response.client_ip]) > max_requests
    /\ Len(request_counts[response.client_ip].requests) = max_requests

\* C38: a sweep loses no session it found within both limits: each turn of
\* its put-back loop leaves the session it handles in the idle queue, whatever
\* the other threads do between its steps.  (A session the loop drops is in
\* no queue, no list and no caller's hands afterwards.)
C38_SweepLosesNoValidSession ==
    [][ \A c \in Callers :
           (/\ frame[c].pc = "put_back"
            /\ frame[c].pooled_connections # << >>
            /\ frame'[c].pooled_connections = Tail(frame[c].pooled_connections))
           => Head(frame[c].pooled_connections) \in Range(_pool') ]_vars

\* the connections the pool has in its queue or a caller has in hand
Reachable == Range(_pool) \cup {held[c].connection : c \in Callers}

\* the pool has no reference to connection id and no caller holds it
Dropped(id) == id \notin Reachable

C40_MetadataMatchesStoredCollections ==
    [][ /\ (writing' = "metadata" /\ writing # "metadata")
           => /\ saving.pending = << "metadata" >>
              /\ \A name \in CollectionFiles : local[name] = saving.target[name]
        /\ local'.metadata # local.metadata => writing = "metadata"
        /\ (saving.active /\ ~ saving'.active)
           => /\ local'.metadata.exists
              /\ local'.metadata.data.categories_count = Len(local'.categories.data)
              /\ local'.metadata.data.products_count = Len(local'.products.data)
              /\ IF result'.remote_write = "committed"
                 THEN /\ remote'.metadata.exists /\ remote'.categories.exists
                      /\ remote'.products.exists /\ remote'.attributes.exists
                      /\ remote'.metadata.data.categories_count = Len(remote'.categories.data)
                      /\ remote'.metadata.data.products_count = Len(remote'.products.data)
                      /\ remote'.categories.data = local.categories.data
                      /\ remote'.products.data = local.products.data
                 ELSE remote' = remote
        /\ ~ (saving.active /\ ~ saving'.active) => remote' = remote ]_vars

\* C40 witness: a reload has returned after writing both stores, five
\* products and three categories in each.
C40_Witness ==
    /\ ~ saving.active
    /\ result.op = "reload_cache"
    /\ result.remote_write = "committed"
    /\ local.metadata.data.products_count = 5
    /\ Len(local.products.data) = 5
    /\ remote.metadata.data.products_count = 5
    /\ Len(remote.products.data) = 5
    /\ remote.metadata.data.categories_count = 3
    /\ Len(local.categories.data) = 3

====
